---- MODULE Spec2Model ----
(***************************************************************************)
(* A model of the psychopath renderer core: the LightPath state machine    *)
(* (src/src/renderer.rs), the bucket producer and the render workers       *)
(* (src/src/renderer.rs), the BVH build and traversal (src/src/bvh.rs)     *)
(* and the tracer (src/src/tracer.rs).                                     *)
(***************************************************************************)
EXTENDS Integers, Sequences, FiniteSets, TLC

VARIABLES
    path,       \* the LightPath struct of one sample
    ray,        \* the ray slot the path writes into (rays[i] of render_job)
    hist,       \* history of the calls to LightPath::next on this path
    cfg,        \* the arguments of Renderer::render and the renderer's fields
    prod,       \* the producer: the closure of tpool.scoped in render
    job_queue,  \* MsQueue<BucketJob>
    all_jobs_queued,    \* RwLock<bool>
    workers,    \* the thread_count calls of render_job
    image,      \* per pixel, the number of path contributions accumulated
    shared,     \* pixels_rendered and collective_stats
    rhist,      \* history: the jobs pushed and popped, in order, and rendered
    objects,    \* the objects slice given to from_objects and traverse
    objects_per_leaf,   \* the argument of from_objects
    bvh,        \* the BVH struct
    build,      \* the calls of recursive_build in progress
    rays,       \* the rays slice given to traverse
    trav,       \* the locals of traverse: i_stack, ray_i_stack, stack_ptr
    isects,     \* per ray id, the intersection the test callback has left
    bhist,      \* history: the inputs and the (object, ray) pairs tested
    tr,         \* the Tracer: its buffers, the transform stack and the calls in progress
    rj,         \* the locals of one call of render_job: paths, rays, pi, the bucket
    locks,      \* who holds the RwLocks, the Mutex and the image's bucket leases
    shader,     \* one call of parse_surface_shader: the DataTree and what came back
    f4,         \* a Float4 and the history of the calls of set_n and get_n on it
    main        \* the --use_stdin loop of main: the stream, the buffer, the position

pathVars == <<path, ray, hist>>

renderVars == <<cfg, prod, job_queue, all_jobs_queued, workers, image, shared, rhist>>

bvhVars == <<objects, objects_per_leaf, bvh, build, rays, trav, isects, bhist>>

traceVars == <<tr>>

jobVars == <<rj>>

lockVars == <<locks>>

unitVars == <<shader, f4, main>>

vars == <<pathVars, renderVars, bvhVars, traceVars, jobVars, lockVars, unitVars>>

\* what the actions of one part of the model leave alone
notPath == <<renderVars, bvhVars, traceVars, jobVars, lockVars, unitVars>>
notRender == <<pathVars, bvhVars, traceVars, jobVars, lockVars, unitVars>>
notBVH == <<pathVars, renderVars, traceVars, jobVars, lockVars, unitVars>>
notTrace == <<pathVars, renderVars, jobVars, lockVars, unitVars>>
notJob == <<pathVars, renderVars, bvhVars, traceVars, lockVars, unitVars>>

\* render_job of the specifications that are about something else
IdleJob == rj = <<>>

\* the locks of the specifications that do not follow them
IdleLocks == locks = <<>>

\* the parser, the Float4 and the stdin loop of the specifications about the renderer
IdleUnits == shader = <<>> /\ f4 = <<>> /\ main = <<>>

Min(a, b) == IF a <= b THEN a ELSE b
Max(a, b) == IF a >= b THEN a ELSE b

(***************************************************************************)
(* LightPath (src/src/renderer.rs, 357-660).                               *)
(*                                                                         *)
(* Float4 quantities are kept as terms: light_attenuation is the sequence  *)
(* of the factors folded into it, color the sequence of the contributions  *)
(* added to it.  A pdf or a filter maximum fed to the path is a number of  *)
(* SampleValues, so that the comparisons "<= 0.0" and "> 0.0" of the code  *)
(* are computed.                                                           *)
(***************************************************************************)

\* LightPathEvent (renderer.rs 358-362)
LightPathEvent == {"CameraRay", "BounceRay", "ShadowRay"}

\* the intersections a path can be handed: Miss, or Hit with an emission
\* closure, or Hit with any other closure
Isects == {"Miss", "HitEmit", "HitSurface"}

\* values of a pdf / of h_max of a filter, as far as the code looks at them
SampleValues == {-1, 0, 1}

\* results of scene.sample_lights
LightKinds == {"None", "Distant", "Surface"}

\* everything a call of next reads from the scene besides the intersection
NextInputs ==
    [light : LightKinds, light_pdf : SampleValues, selection_pdf : SampleValues,
     attenuation_max : SampleValues, bsdf_pdf : SampleValues,
     filter_max : SampleValues]

NoRay == [is_shadow |-> FALSE, from |-> -1]

\* Float4::splat(1.0), the filter and the pdf of the BSDF sample taken at hit k
One == [op |-> "one", hit |-> 0]
Filter(k) == [op |-> "filter", hit |-> k]
Pdf(k) == [op |-> "pdf", hit |-> k]

\* the operations "/=" and "*=" on light_attenuation
Div(f) == [op |-> "div", by |-> f]
Mul(f) == [op |-> "mul", by |-> f]

\* an amount of light: Float4::splat(0.0), or what one of the four places
\* that produce light computes from the path's attenuation and pdf
Zero == [kind |-> "zero", hit |-> 0, att |-> <<>>, pdf |-> One]
Light(kind, k, att, pdf) == [kind |-> kind, hit |-> k, att |-> att, pdf |-> pdf]

\* renderer.rs 249-268: the dimensions render_job hands to get_sample for a
\* new path, by what they are used for
CreationDims ==
    [filter_x |-> 4, filter_y |-> 5, lens_u |-> 0, lens_v |-> 1, time |-> 2,
     wavelength |-> 3]

\* renderer.rs 249-268: the same dimensions in the order they are drawn
CreationDraws ==
    <<CreationDims.filter_x, CreationDims.filter_y, CreationDims.lens_u,
      CreationDims.lens_v, CreationDims.time, CreationDims.wavelength>>

\* LightPath::new (renderer.rs 385-423): the path and the camera ray.
\* drawn is not a field of the struct: it lists the dimensions handed to
\* get_sample with this path's lds_offset, in the order of the calls.
NewLightPath ==
    [event |-> "CameraRay",
     bounce_count |-> 0,
     dim_offset |-> 6,
     drawn |-> CreationDraws,
     next_bounce_ray |-> NoRay,
     next_attenuation_fac |-> One,
     closure_sample_pdf |-> One,
     light_attenuation |-> <<>>,
     pending_color_addition |-> Zero,
     color |-> <<>>]

CameraRay == [is_shadow |-> FALSE, from |-> 0]

next_lds_sampMut(p, n) ==
    [p EXCEPT !.drawn = @ \o [i \in 1..n |-> p.dim_offset]]
\* LightPath::next_lds_samp (renderer.rs 425-429), n draws in a row: each
\* hands the counter to get_sample and leaves it one higher
next_lds_samp(p, n) ==
    [p EXCEPT !.dim_offset = @ + n,
              !.drawn = @ \o [i \in 1..n |-> p.dim_offset + (i - 1)]]

\* renderer.rs 485-487 and 561: is a shadow ray prepared for this hit
found_light(inp) ==
    IF inp.light = "None" \/ inp.light_pdf <= 0 \/ inp.selection_pdf <= 0
    THEN FALSE
    ELSE ~(inp.attenuation_max <= 0)

BounceAllowedMut(p) == p.bounce_count <= 2
\* renderer.rs 578: may this hit sample a bounce
BounceAllowed(p) == p.bounce_count < 2

\* renderer.rs 590: is the BSDF sample usable
SampleUsable(inp) == (inp.bsdf_pdf > 0) /\ (inp.filter_max > 0)

\* renderer.rs 577-613: "Prepare bounce ray"; k is the number of this hit.
\* Returns the path and do_bounce.
PrepareBounce(p, inp, k) ==
    IF BounceAllowed(p)
    THEN LET p1 == next_lds_samp([p EXCEPT !.bounce_count = @ + 1], 2)
         IN  IF SampleUsable(inp)
             THEN [path |-> [p1 EXCEPT !.next_attenuation_fac = Filter(k),
                                       !.closure_sample_pdf = Pdf(k),
                                       !.next_bounce_ray =
                                           [is_shadow |-> FALSE, from |-> k]],
                   do_bounce |-> TRUE]
             ELSE [path |-> p1, do_bounce |-> FALSE]
    ELSE [path |-> [p EXCEPT !.next_bounce_ray = NoRay], do_bounce |-> FALSE]

\* renderer.rs 441-637: the CameraRay | BounceRay arm of next
NextCameraOrBounce(p, isect, inp, r, k) ==
    IF isect = "HitEmit"
    THEN \* 454-464
         [path |-> [p EXCEPT !.color = Append(@,
                        IF p.event = "CameraRay"
                        THEN Light("emit", k, <<>>, One)
                        ELSE Light("emit_mis", k, p.light_attenuation,
                                   p.closure_sample_pdf))],
          ray |-> r, ret |-> FALSE]
    ELSE IF isect = "HitSurface"
    THEN LET \* 467
             p1 == [p EXCEPT !.light_attenuation =
                                 Append(@, Div(p.closure_sample_pdf))]
             \* 470-475
             p2 == next_lds_samp(p1, 4)
             fl == found_light(inp)
             \* 567-571
             p3 == IF fl
                   THEN [p2 EXCEPT !.pending_color_addition =
                                       Light("light", k, p2.light_attenuation, One)]
                   ELSE p2
             r3 == IF fl THEN [is_shadow |-> TRUE, from |-> k] ELSE r
             pb == PrepareBounce(p3, inp, k)
             p4 == pb.path
         IN  \* 616-626
             IF fl
             THEN [path |-> [p4 EXCEPT !.event = "ShadowRay"],
                   ray |-> r3, ret |-> TRUE]
             ELSE IF pb.do_bounce
             THEN [path |-> [p4 EXCEPT !.event = "BounceRay",
                                       !.light_attenuation =
                                           Append(@, Mul(p4.next_attenuation_fac))],
                   ray |-> p4.next_bounce_ray, ret |-> TRUE]
             ELSE [path |-> p4, ray |-> r3, ret |-> FALSE]
    ELSE \* 629-635
         [path |-> [p EXCEPT !.color = Append(@,
                        Light("background", k, p.light_attenuation,
                              p.closure_sample_pdf))],
          ray |-> r, ret |-> FALSE]

CommitPendingMut(p, isect) ==
    [p EXCEPT !.color = Append(@, p.pending_color_addition)]
\* renderer.rs 644-646: the shadow ray's result commits the pending light
CommitPending(p, isect) ==
    IF isect = "Miss"
    THEN [p EXCEPT !.color = Append(@, p.pending_color_addition)]
    ELSE p

NextShadowMut(p, isect, r) ==
    LET p1 == CommitPending(p, isect)
    IN  IF p1.next_bounce_ray # NoRay
        THEN [path |-> [p1 EXCEPT !.light_attenuation =
                                      Append(@, Mul(p1.next_attenuation_fac))],
              ray |-> p1.next_bounce_ray, ret |-> TRUE]
        ELSE [path |-> p1, ray |-> r, ret |-> FALSE]
\* renderer.rs 641-657: the ShadowRay arm of next
NextShadow(p, isect, r) ==
    LET p1 == CommitPending(p, isect)
    IN  IF p1.next_bounce_ray # NoRay
        THEN [path |-> [p1 EXCEPT !.light_attenuation =
                                      Append(@, Mul(p1.next_attenuation_fac)),
                                  !.event = "BounceRay"],
              ray |-> p1.next_bounce_ray, ret |-> TRUE]
        ELSE [path |-> p1, ray |-> r, ret |-> FALSE]

LightPathNextMut(p, isect, inp, r, k) ==
    IF p.event \in {"CameraRay", "BounceRay"}
    THEN LET res == NextCameraOrBounce(p, isect, inp, r, k)
         IN  IF res.ret /\ res.ray.is_shadow /\ res.path.next_bounce_ray # NoRay
             THEN [res EXCEPT !.path.light_attenuation =
                                  Append(@, Mul(res.path.next_attenuation_fac))]
             ELSE res
    ELSE NextShadow(p, isect, r)
\* renderer.rs 431-659: LightPath::next
LightPathNext(p, isect, inp, r, k) ==
    IF p.event \in {"CameraRay", "BounceRay"}
    THEN NextCameraOrBounce(p, isect, inp, r, k)
    ELSE NextShadow(p, isect, r)

\* an input that is not read (the intersection is no surface hit)
NoInput ==
    [light |-> "None", light_pdf |-> 0, selection_pdf |-> 0,
     attenuation_max |-> 0, bsdf_pdf |-> 0, filter_max |-> 0]

\* what the history keeps of a surface hit: was a BSDF sample taken, was it
\* usable, was a shadow ray prepared
NoHit == [sampled |-> FALSE, usable |-> FALSE, found |-> FALSE]

\* what the history keeps of the latest call of next
NoCall == [evIn |-> "none", isect |-> "Miss", ret |-> TRUE, before |-> NewLightPath]

\* the path of the specifications that are about something else
IdlePath == path = NewLightPath /\ ray = CameraRay /\ hist = <<>>

\* renderer.rs 284-286: partition_pair calls next on a path that has not yet
\* returned false, with the intersection of the path's own ray
CallNext ==
    /\ hist.alive
    /\ \E isect \in Isects, inp \in NextInputs :
        /\ (path.event = "ShadowRay" \/ isect # "HitSurface") => inp = NoInput
        /\ LET isHit == path.event # "ShadowRay" /\ isect = "HitSurface"
               k == IF isHit THEN hist.hits + 1 ELSE hist.hits
               res == LightPathNext(path, isect, inp, ray, k)
           IN  /\ path' = res.path
               /\ ray' = res.ray
               /\ hist' = [alive |-> res.ret,
                           calls |-> hist.calls + 1,
                           hits |-> k,
                           bounces |-> hist.bounces +
                               (IF res.ret /\ res.path.event = "BounceRay"
                                THEN 1 ELSE 0),
                           hit |-> IF isHit
                                   THEN [sampled |-> BounceAllowed(path),
                                         usable |-> SampleUsable(inp),
                                         found |-> found_light(inp)]
                                   ELSE hist.hit,
                           last |-> [evIn |-> path.event, isect |-> isect,
                                     ret |-> res.ret, before |-> path]]
    /\ UNCHANGED notPath

(***************************************************************************)
(* BVH (src/src/bvh.rs).                                                   *)
(*                                                                         *)
(* Coordinates are integers and times are counted in halves (0, 1, 2 for   *)
(* 0.0, 0.5, 1.0), so that with even coordinates every interpolated box    *)
(* has integer corners; comparisons of centroids with SAH planes are       *)
(* computed exactly, on both sides multiplied by 2 * SAH_BIN_COUNT.        *)
(* Indices of nodes, bounds and objects are those of the code (from 0).    *)
(***************************************************************************)

\* bvh.rs 13-14
BVH_MAX_DEPTH == 64
SAH_BIN_COUNT == 13

\* the three axes, numbered as in the code
Axes == 0..2

\* a BBox with corners mn and mx (tuples indexed from 1: axis d is at d + 1)
BBox(mn, mx) == [empty |-> FALSE, min |-> mn, max |-> mx]

\* BBox::new(): the box that contains nothing (min = +inf, max = -inf)
EmptyBBox == [empty |-> TRUE, min |-> <<0, 0, 0>>, max |-> <<0, 0, 0>>]

\* BBox | BBox: component-wise minimum and maximum
BBoxUnion(a, b) ==
    IF a.empty THEN b
    ELSE IF b.empty THEN a
    ELSE BBox([i \in 1..3 |-> Min(a.min[i], b.min[i])],
              [i \in 1..3 |-> Max(a.max[i], b.max[i])])

\* the least and the greatest of a set of numbers
MinOf(S) == CHOOSE m \in S : \A x \in S : m <= x
MaxOf(S) == CHOOSE m \in S : \A x \in S : m >= x

\* "|" folded over boxes that are not empty, starting from BBox::new()
UnionOf(boxes) ==
    IF boxes = {} THEN EmptyBBox
    ELSE BBox([i \in 1..3 |-> MinOf({b.min[i] : b \in boxes})],
              [i \in 1..3 |-> MaxOf({b.max[i] : b \in boxes})])

\* BBox::surface_area of a box that is not empty
Area(dx, dy, dz) == 2 * (dx * dy + dy * dz + dz * dx)
surface_area(b) ==
    Area(b.max[1] - b.min[1], b.max[2] - b.min[2], b.max[3] - b.min[3])

\* lerp of two boxes at h halves (h is 0 or 1)
lerp(a, b, h) ==
    IF h = 0 THEN a
    ELSE BBox([i \in 1..3 |-> (a.min[i] + b.min[i]) \div 2],
              [i \in 1..3 |-> (a.max[i] + b.max[i]) \div 2])

\* lerp::lerp_slice(s, alpha), alpha = t2 / 2: linear between the bracketing
\* samples, the last sample for one sample or alpha = 1; tmp2 is twice
\* alpha * (len - 1)
LerpAt(s, tmp2) == lerp(s[tmp2 \div 2 + 1], s[tmp2 \div 2 + 2], tmp2 % 2)
lerp_slice(s, t2) ==
    IF Len(s) = 1 \/ t2 = 2 THEN s[Len(s)] ELSE LerpAt(s, t2 * (Len(s) - 1))

\* math::log2_64: the integer logarithm, rounded down
RECURSIVE log2_64(_)
log2_64(v) == IF v <= 1 THEN 0 ELSE 1 + log2_64(v \div 2)

\* the bounder closure of from_objects: the bounds of an object
bounder(obj) == obj.bounds

\* the slice s[a..b] of the code
Slice(s, a, b) == SubSeq(s, a + 1, b)

\* algorithm::partition on a slice whose elements carry the predicate's
\* value in f: the elements with f come first; returns their number.
\* Two cursors a and b close in on each other and swap misplaced pairs.
RECURSIVE ScanUp(_, _, _)
ScanUp(f, a, b) == IF a = b \/ ~f[a + 1] THEN a ELSE ScanUp(f, a + 1, b)
RECURSIVE ScanDown(_, _, _)
ScanDown(f, a, b) == IF b = a \/ f[b + 1] THEN b ELSE ScanDown(f, a, b - 1)
Swap(s, i, j) == [s EXCEPT ![i + 1] = s[j + 1], ![j + 1] = s[i + 1]]
RECURSIVE PartitionFrom(_, _, _, _)
PartitionSwap(s, f, a, b) ==
    IF b = a THEN [slc |-> s, n |-> a]
    ELSE PartitionFrom(Swap(s, a, b), Swap(f, a, b), a + 1, b)
PartitionDown(s, f, a, b) ==
    IF a = b THEN [slc |-> s, n |-> a]
    ELSE PartitionSwap(s, f, a, ScanDown(f, a, b - 1))
PartitionFrom(s, f, a, b) == PartitionDown(s, f, ScanUp(f, a, b), b)
partition(s, f) == PartitionFrom(s, f, 0, Len(s))

acc_boundsMut(objs1) == bounder(objs1[1])
\* bvh.rs 64-79: BVH::acc_bounds, the contents of bounds_cache afterwards:
\* the first object's bounds, each merged with the other objects' bounds of
\* the same index
acc_bounds(objs1) ==
    [i \in 1..Len(bounder(objs1[1])) |->
        UnionOf({bounder(objs1[k])[i] :
                    k \in {j \in 1..Len(objs1) : i <= Len(bounder(objs1[j]))}})]

\* algorithm::merge_slices_append with merge = "|": the element-wise union
\* of two slices of the same length
merge_slices_append(slice1, slice2) ==
    IF Len(slice1) = 0 \/ Len(slice2) = 0 THEN <<>>
    ELSE [i \in 1..Min(Len(slice1), Len(slice2)) |-> BBoxUnion(slice1[i], slice2[i])]

\* bvh.rs 123, 153, 197, 225: lerp_slice(bounder(obj), 0.5) of every object
TimeBounds(objs) == [k \in 1..Len(objs) |-> lerp_slice(bounder(objs[k]), 1)]

\* bvh.rs 120-126: the union of the objects' bounds at time 0.5
CombinedBounds(tbs) == UnionOf({tbs[k] : k \in 1..Len(tbs)})

\* bvh.rs 154, 198, 227: twice the centroid of a box on axis d
Centroid2(tb, d) == tb.min[d + 1] + tb.max[d + 1]

\* bvh.rs 137-147: SAH_BIN_COUNT times sah_divs[d][div]
SahDiv13(bounds, d, div) ==
    SAH_BIN_COUNT * bounds.min[d + 1]
        + (bounds.max[d + 1] - bounds.min[d + 1]) * (div + 1)

\* bvh.rs 158: the objects on the left of the plane (div13 is SAH_BIN_COUNT
\* times the plane)
SahLeft(tbs, d, div13) ==
    {k \in 1..Len(tbs) : SAH_BIN_COUNT * Centroid2(tbs[k], d) <= 2 * div13}

\* bvh.rs 150-169: sah_bins[d][div]: the boxes and the counts of the objects
\* on either side of the plane
SahBinOf(tbs, left) ==
    [lbox |-> UnionOf({tbs[k] : k \in left}),
     rbox |-> UnionOf({tbs[k] : k \in (1..Len(tbs)) \ left}),
     lcount |-> Cardinality(left),
     rcount |-> Len(tbs) - Cardinality(left)]
SahBin(tbs, d, div13) == SahBinOf(tbs, SahLeft(tbs, d, div13))

\* bvh.rs 179-183: tot_cost.  The surface area of the empty box is infinite
\* and its count is 0, so the cost of a plane with an empty side is NaN.
SahCost(bin) ==
    IF bin.lcount = 0 \/ bin.rcount = 0
    THEN [nan |-> TRUE, v |-> 0]
    ELSE [nan |-> FALSE,
          v |-> surface_area(bin.lbox) * bin.lcount
                    + surface_area(bin.rbox) * bin.rcount]

\* bvh.rs 177-183: the candidate of the loops' iteration number c (from 0)
SahCandidateAt(c, d, div13, cost) ==
    [c |-> c, dim |-> d, div13 |-> div13, nan |-> cost.nan, cost |-> cost.v]
SahCandidateOn(tbs, c, d, div13) ==
    SahCandidateAt(c, d, div13, SahCost(SahBin(tbs, d, div13)))
SahCandidate(bounds, tbs, c) ==
    SahCandidateOn(tbs, c, c \div (SAH_BIN_COUNT - 1),
                   SahDiv13(bounds, c \div (SAH_BIN_COUNT - 1),
                            c % (SAH_BIN_COUNT - 1)))

\* bvh.rs 172-193: the best axis and plane.  "tot_cost < smallest_cost" is
\* false for NaN and for a cost that was seen before, so the loops keep the
\* first candidate of the least cost; with no candidate to keep, dim is 0
\* and div_n is 0.0.
SahChoose(valid) ==
    IF valid = {} THEN [c |-> 0, dim |-> 0, div13 |-> 0, nan |-> TRUE, cost |-> 0]
    ELSE CHOOSE x \in valid :
            \A y \in valid : x.cost < y.cost \/ (x.cost = y.cost /\ x.c <= y.c)
SahValid(cands) == {x \in cands : ~x.nan}
SahBest(bounds, tbs) ==
    SahChoose(SahValid({SahCandidate(bounds, tbs, c) :
                           c \in 0..(3 * (SAH_BIN_COUNT - 1) - 1)}))

ClampSplitMut(split_i, len) == split_i
\* bvh.rs 201-205: keep the split index within [1, len - 1]
ClampSplit(split_i, len) ==
    IF split_i < 1 THEN 1
    ELSE IF split_i >= len THEN len - 1
    ELSE split_i

\* bvh.rs 196-207: the objects partitioned by "centroid < div"
SahPartition(objs, tbs, best) ==
    [p |-> partition(objs, [k \in 1..Len(objs) |->
                               SAH_BIN_COUNT * Centroid2(tbs[k], best.dim)
                                   < 2 * best.div13]),
     split_axis |-> best.dim]
SahResult(r, len) ==
    [objects |-> r.p.slc, split_index |-> ClampSplit(r.p.n, len),
     split_axis |-> r.split_axis]

\* bvh.rs 134-207: SAH splitting: the objects as partitioned, split_index
\* and split_axis
SahSplit(objs, tbs) ==
    SahResult(SahPartition(objs, tbs, SahBest(CombinedBounds(tbs), tbs)), Len(objs))

\* bvh.rs 210-221: the axis of the largest extent, the first one on a tie
LargestOf(e0, e1, e2) ==
    IF e1 > e0
    THEN (IF e2 > e1 THEN 2 ELSE 1)
    ELSE (IF e2 > e0 THEN 2 ELSE 0)
LargestAxis(bounds) ==
    LargestOf(bounds.max[1] - bounds.min[1], bounds.max[2] - bounds.min[2],
              bounds.max[3] - bounds.min[3])

\* quickersort::sort_by with the comparison of bvh.rs 224-237: the places
\* of the objects in the order of their centroids on the axis (by insertion)
RECURSIVE InsertSorted(_, _, _, _)
InsertSorted(sorted, k, tbs, d) ==
    IF sorted = <<>> THEN <<k>>
    ELSE IF Centroid2(tbs[k], d) < Centroid2(tbs[Head(sorted)], d)
    THEN <<k>> \o sorted
    ELSE <<Head(sorted)>> \o InsertSorted(Tail(sorted), k, tbs, d)
RECURSIVE SortFrom(_, _, _, _)
SortFrom(sorted, k, tbs, d) ==
    IF k > Len(tbs) THEN sorted
    ELSE SortFrom(InsertSorted(sorted, k, tbs, d), k + 1, tbs, d)
Permuted(objs, order) == [k \in 1..Len(objs) |-> objs[order[k]]]
sort_by(objs, tbs, d) == Permuted(objs, SortFrom(<<>>, 1, tbs, d))

\* bvh.rs 209-239: balanced splitting
BalancedOn(objs, tbs, split_axis) ==
    [objects |-> sort_by(objs, tbs, split_axis),
     split_index |-> Len(objs) \div 2,
     split_axis |-> split_axis]
BalancedSplit(objs, tbs) == BalancedOn(objs, tbs, LargestAxis(CombinedBounds(tbs)))

\* bvh.rs 132-133: is there room for SAH splitting at this depth
UseSah(len, depth) == log2_64(len) < BVH_MAX_DEPTH - depth

\* bvh.rs 132-240: split_index, split_axis and the objects as reordered
Split(objs, tbs, depth) ==
    IF UseSah(Len(objs), depth) THEN SahSplit(objs, tbs) ELSE BalancedSplit(objs, tbs)

\* BVH::new_empty (bvh.rs 39-46)
new_empty == [nodes |-> <<>>, bounds |-> <<>>, depth |-> 0, bounds_cache |-> <<>>]

\* BVHNode::Leaf and BVHNode::Internal (bvh.rs 25-36)
Leaf(br, or) ==
    [kind |-> "Leaf", bounds_range |-> br, second_child_index |-> 0,
     split_axis |-> 0, object_range |-> or]
Internal(br, second, axis) ==
    [kind |-> "Internal", bounds_range |-> br, second_child_index |-> second,
     split_axis |-> axis, object_range |-> <<0, 0>>]

\* bvh.rs 328-336: Boundable::bounds of a BVH that has a node
BVHBounds(b) ==
    Slice(b.bounds, b.nodes[1].bounds_range[1], b.nodes[1].bounds_range[2])

\* ---- rays and the test of a primitive (ray.rs, bbox.rs, tracer.rs)

\* f32::INFINITY as a distance: beyond every distance of the model
Infinity == 1000

\* an AccelRay: the origin, the inverse direction (components 1 or -1, so
\* that distances are integers), the time in halves, max_t, the id and flags
AccelRay(id, orig, dir_inv, time, max_t, occlusion) ==
    [id |-> id, orig |-> orig, dir_inv |-> dir_inv, time |-> time,
     max_t |-> max_t, occlusion |-> occlusion, done |-> FALSE]

\* AccelRay::is_done
is_done(r) == r.done

\* the interval of distances at which the ray is inside the box (slab test)
Near(box, r, i) ==
    Min((box.min[i] - r.orig[i]) * r.dir_inv[i], (box.max[i] - r.orig[i]) * r.dir_inv[i])
Far(box, r, i) ==
    Max((box.min[i] - r.orig[i]) * r.dir_inv[i], (box.max[i] - r.orig[i]) * r.dir_inv[i])
Slab(box, r) ==
    <<Max(Near(box, r, 1), Max(Near(box, r, 2), Near(box, r, 3))),
      Min(Far(box, r, 1), Min(Far(box, r, 2), Far(box, r, 3)))>>

\* BBox::intersect_accel_ray: does the ray enter the box within [0, max_t]
Enters(s, max_t) == Max(s[1], 0) <= Min(s[2], max_t)
intersect_accel_ray(box, r) == Enters(Slab(box, r), r.max_t)

\* the distance at which the ray hits the object (a box that fills its
\* bounds at the time of the ray), Infinity when it misses
HitOf(s) == IF s[1] <= s[2] /\ s[2] >= 0 THEN Max(s[1], 0) ELSE Infinity
HitDistance(obj, r) == HitOf(Slab(lerp_slice(bounder(obj), r.time), r))

NoIsect == [hit |-> FALSE, obj |-> 0, t |-> 0]

\* obj_ray_test on one ray: a hit closer than max_t replaces the
\* intersection and shortens the ray; an occlusion ray is done at its
\* first hit
TestRayAt(r, t) ==
    IF ~is_done(r) /\ t < r.max_t
    THEN IF r.occlusion THEN [r EXCEPT !.done = TRUE]
                        ELSE [r EXCEPT !.max_t = t]
    ELSE r
TestRay(obj, r) == TestRayAt(r, HitDistance(obj, r))
TestIsectAt(obj, r, isect, t) ==
    IF ~is_done(r) /\ t < r.max_t
    THEN [hit |-> TRUE, obj |-> obj.id, t |-> t]
    ELSE isect
TestIsect(obj, r, isect) == TestIsectAt(obj, r, isect, HitDistance(obj, r))

\* obj_ray_test(obj, rays): the rays and the intersections afterwards
obj_ray_test(obj, rs, is) ==
    [rays |-> [i \in 1..Len(rs) |-> TestRay(obj, rs[i])],
     isects |-> [id \in DOMAIN is |->
                    IF \E i \in 1..Len(rs) : rs[i].id = id
                    THEN TestIsect(obj, rs[CHOOSE i \in 1..Len(rs) : rs[i].id = id],
                                   is[id])
                    ELSE is[id]]]

\* ---- BVH::traverse (bvh.rs 276-324)

\* bvh.rs 292-293, 311-312: the predicate of the partition of the rays
RayEnters(b, br, r) ==
    (~is_done(r)) /\ intersect_accel_ray(lerp_slice(Slice(b.bounds, br[1], br[2]), r.time), r)

\* partition(&mut rays[..n], ...): the whole of rays afterwards and part
RayFlags(b, br, head) == [i \in 1..Len(head) |-> RayEnters(b, br, head[i])]
Rejoin(p, rest) == [rays |-> p.slc \o rest, part |-> p.n]
PartitionRays(b, br, rs, n) ==
    Rejoin(partition(SubSeq(rs, 1, n), RayFlags(b, br, SubSeq(rs, 1, n))),
           SubSeq(rs, n + 1, Len(rs)))

LeafObjectsMut(objs, object_range) == Slice(objs, object_range[1], object_range[1] + 1)
\* bvh.rs 315: the objects of a leaf
LeafObjects(objs, object_range) == Slice(objs, object_range[1], object_range[2])

\* bvh.rs 315-317: obj_ray_test for every object of the leaf, in order;
\* st holds the rays given to the callback and the intersections
RECURSIVE TestObjects(_, _, _)
TestObjects(objs, k, st) ==
    IF k > Len(objs) THEN st
    ELSE TestObjects(objs, k + 1, obj_ray_test(objs[k], st.rays, st.isects))

\* f32::is_sign_positive
is_sign_positive(x) == x >= 0

\* the size of i_stack and ray_i_stack (bvh.rs 284-285)
StackSize == BVH_MAX_DEPTH + 2

\* the calls of recursive_build in progress, and the latest result
NoBuild == [stack |-> <<>>, ret |-> [index |-> 0, br |-> <<0, 0>>]]

\* the locals of traverse before the call
NoTraverse == [pc |-> "idle", i_stack |-> <<>>, ray_i_stack |-> <<>>, stack_ptr |-> 0]

\* the BVH of the specifications that are about something else
IdleBVH ==
    /\ objects = <<>> /\ objects_per_leaf = 0 /\ bvh = new_empty /\ build = NoBuild
    /\ rays = <<>> /\ trav = NoTraverse /\ isects = <<>> /\ bhist = <<>>

(***************************************************************************)
(* Tracer (src/src/tracer.rs).                                             *)
(*                                                                         *)
(* A transform is a mirroring of some axes followed by a translation, so   *)
(* that transformed rays keep integer origins and directions with          *)
(* components 1 or -1.  A transform range holds one time sample.           *)
(***************************************************************************)

\* the rays of rs from lo to hi, partitioned by "dir_inv[axis] >= 0.0"
PartByMut(rs, lo, hi, axis) ==
    partition(Slice(rs, lo, hi), [i \in 1..(hi - lo) |-> rs[lo + i].dir_inv[1] >= 0])
\* tracer.rs 224-232: partition(&mut rays[lo..hi], |r| r.dir_inv[axis] >= 0.0)
PartBy(rs, lo, hi, axis) ==
    partition(Slice(rs, lo, hi), [i \in 1..(hi - lo) |-> rs[lo + i].dir_inv[axis] >= 0])

\* tracer.rs 229-242: the four partitions on z and the eight slices, given
\* as their boundaries 0, s1 .. s7, len
SplitJoinZ(p1, p3, p5, p7, s2, s4, s6, len) ==
    [rays |-> p1.slc \o p3.slc \o p5.slc \o p7.slc,
     s |-> <<0, p1.n, s2, s2 + p3.n, s4, s4 + p5.n, s6, s6 + p7.n, len>>]
SplitZ(rs, s2, s4, s6) ==
    SplitJoinZ(PartBy(rs, 0, s2, 3), PartBy(rs, s2, s4, 3), PartBy(rs, s4, s6, 3),
               PartBy(rs, s6, Len(rs), 3), s2, s4, s6, Len(rs))

\* tracer.rs 226-227: the two partitions on y
SplitJoinY(p2, p6, s4) == SplitZ(p2.slc \o p6.slc, p2.n, s4, s4 + p6.n)
SplitY(rs, s4) == SplitJoinY(PartBy(rs, 0, s4, 2), PartBy(rs, s4, Len(rs), 2), s4)

\* tracer.rs 224: the partition on x
SplitJoinX(p4) == SplitY(p4.slc, p4.n)

\* tracer.rs 221-243: split_rays_by_direction: the rays as reordered and the
\* boundaries of the eight slices
split_rays_by_direction(rs) == SplitJoinX(PartBy(rs, 0, Len(rs), 1))

\* slice k (from 0) of a split, as the offsets of its first ray and its end
RaySet(s, k) == <<s[k + 1], s[k + 2]>>

\* a transform: x |-> flip * x + off on every axis (flip is 1 or -1)
Xform(flip, off) == [flip |-> flip, off |-> off]
XformPoint(m, p) == [a \in 1..3 |-> m.flip[a] * p[a] + m.off[a]]
XformVector(m, v) == [a \in 1..3 |-> m.flip[a] * v[a]]

\* Matrix4x4 * Matrix4x4: first m1, then m2
XformMul(m1, m2) == Xform(XformVector(m2, m1.flip), XformPoint(m2, m1.off))

\* lerp_slice on a transform range of one time sample
XformAt(xforms, time) == xforms[1]

\* TransformStack::push: the range, combined with the top if there is one
xform_push(stack, xforms) ==
    IF stack = <<>> THEN <<xforms>>
    ELSE Append(stack, [i \in 1..Len(xforms) |-> XformMul(stack[Len(stack)][i], xforms[i])])
\* TransformStack::pop and TransformStack::top (empty when nothing is pushed)
xform_pop(stack) == SubSeq(stack, 1, Len(stack) - 1)
xform_top(stack) == IF stack = <<>> THEN <<>> ELSE stack[Len(stack)]

\* a world ray, and AccelRay::new(wr, id)
Ray(orig, dir, time, max_t, occlusion) ==
    [orig |-> orig, dir |-> dir, time |-> time, max_t |-> max_t, occlusion |-> occlusion]
AccelRayNew(wr, id) == AccelRay(id, wr.orig, wr.dir, wr.time, wr.max_t, wr.occlusion)

\* AccelRay::update_from_world_ray and update_from_xformed_world_ray
update_from_world_ray(r, wr) == [r EXCEPT !.orig = wr.orig, !.dir_inv = wr.dir]
update_from_xformed_world_ray(r, wr, mat) ==
    [r EXCEPT !.orig = XformPoint(mat, wr.orig), !.dir_inv = XformVector(mat, wr.dir)]

\* "no transform_indices" of an instance
None == <<>>

\* an instance of an assembly; bounds are its bounds in the assembly's space
Instance(id, type, data_index, transform_indices, bounds) ==
    [id |-> id, instance_type |-> type, data_index |-> data_index,
     transform_indices |-> transform_indices, bounds |-> bounds]

\* the surface of the scenes, object 0 of every assembly: a box (shape)
\* that does not fill its bounds
Surface ==
    [id |-> 0, bounds |-> <<BBox(<<0, 0, 0>>, <<2, 2, 6>>)>>,
     shape |-> <<BBox(<<0, 0, 0>>, <<2, 2, 2>>)>>]

\* Surface::intersect_rays: the rays that are not done and hit the shape
\* closer than their max_t get the hit as their intersection and max_t
intersect_rays(surface, rs, is) ==
    obj_ray_test([id |-> surface.id, bounds |-> surface.shape], rs, is)

\* the box that a transform takes into the box b
BoxBefore(m, b) ==
    BBox([a \in 1..3 |-> Min(m.flip[a] * (b.min[a] - m.off[a]),
                            m.flip[a] * (b.max[a] - m.off[a]))],
         [a \in 1..3 |-> Max(m.flip[a] * (b.min[a] - m.off[a]),
                            m.flip[a] * (b.max[a] - m.off[a]))])

\* the bounds of an instance of something with the bounds bs, transformed
\* by xf (a transform range, or None)
InstanceBounds(xf, bs) ==
    IF xf = None THEN bs ELSE [i \in 1..Len(bs) |-> BoxBefore(xf[1], bs[i])]

\* the tracer before a call
NoTrace ==
    [pc |-> "idle", wrays |-> <<>>, rays |-> <<>>, isects |-> <<>>,
     xform_stack |-> <<>>, s |-> <<>>, set_i |-> 0, stack |-> <<>>,
     hist |-> <<>>]

IdleTrace == tr = NoTrace

(***************************************************************************)
(* Renderer::render and Renderer::render_job (src/src/renderer.rs, 75-354) *)
(***************************************************************************)

\* bounds of the inputs of render
MaxDim == 2
MaxThreads == 2
MaxSpp == 1
MaxSamplesPerBucket == 4
\* bound of the number of buckets when several workers are interleaved
MaxJobs == 4

\* an absent crop (Option::None)
NoCrop == <<>>

\* the crops given on the command line: (x1, y1, x2, y2), inclusive, with
\* x1 <= x2 and y1 <= y2, not yet clamped to the image
Crops ==
    {c \in (0..MaxDim) \X (0..MaxDim) \X (0..MaxDim) \X (0..MaxDim) :
        c[1] <= c[3] /\ c[2] <= c[4]}

\* f64::sqrt followed by "as usize": the largest r with r * r <= v
RECURSIVE SqrtFloorFrom(_, _)
SqrtFloorFrom(v, r) == IF (r + 1) * (r + 1) > v THEN r ELSE SqrtFloorFrom(v, r + 1)

\* renderer.rs 138-147: the bucket dimension.  sqrt(a / b) < 1 exactly when
\* a < b, and the floor of sqrt(a / b) is the floor of the root of a \div b.
BucketDim(max_samples_per_bucket, spp) ==
    IF max_samples_per_bucket < spp
    THEN 1
    ELSE SqrtFloorFrom(max_samples_per_bucket \div spp, 0)

\* renderer.rs 100-108: (width, height, start_x, start_y) of the render region
RenderRegion(c) ==
    IF c.crop # NoCrop
    THEN LET x1 == Min(c.crop[1], c.img_width - 1)
             y1 == Min(c.crop[2], c.img_height - 1)
             x2 == Min(c.crop[3], c.img_width - 1)
             y2 == Min(c.crop[4], c.img_height - 1)
         IN  [width |-> x2 - x1 + 1, height |-> y2 - y1 + 1,
              start_x |-> x1, start_y |-> y1]
    ELSE [width |-> c.img_width, height |-> c.img_height,
          start_x |-> 0, start_y |-> 0]

\* math::upper_power_of_two: the smallest power of two that is >= v
RECURSIVE PowerOfTwoFrom(_, _)
PowerOfTwoFrom(v, p) == IF p >= v THEN p ELSE PowerOfTwoFrom(v, 2 * p)
upper_power_of_two(v) == PowerOfTwoFrom(v, 1)

\* renderer.rs 150-156: the number of cells of the Hilbert grid
bucket_n(c) ==
    LET r == RenderRegion(c)
        bucket_count_x == (r.width \div c.bucket_w) + 1
        bucket_count_y == (r.height \div c.bucket_h) + 1
        larger == Max(bucket_count_x, bucket_count_y)
        pow2 == upper_power_of_two(larger)
    IN  pow2 * pow2

\* the side of the square the Hilbert curve of hilbert::d2xy fills
HilbertN == 65536

\* hilbert::hil_rot: rotate or flip a quadrant
hil_rot(n, rx, ry, xy) ==
    IF ry = 0
    THEN IF rx = 1
         THEN <<n - 1 - xy[2], n - 1 - xy[1]>>
         ELSE <<xy[2], xy[1]>>
    ELSE xy

\* hilbert::d2xy: the cell at distance d along the curve
RECURSIVE d2xyFrom(_, _, _)
d2xyFrom(s, t, xy) ==
    IF s >= HilbertN
    THEN xy
    ELSE LET rx == (t \div 2) % 2
             ry == ((t % 2) + rx) % 2
             r == hil_rot(s, rx, ry, xy)
         IN  d2xyFrom(2 * s, t \div 4, <<r[1] + s * rx, r[2] + s * ry>>)
d2xy(d) == d2xyFrom(1, d, <<0, 0>>)

\* renderer.rs 158-171: the tile of grid cell hilbert_d, relative to the region
Tile(c, hilbert_d) ==
    LET r == RenderRegion(c)
        b == d2xy(hilbert_d)
        x == b[1] * c.bucket_w
        y == b[2] * c.bucket_h
        w == IF r.width >= x THEN Min(c.bucket_w, r.width - x) ELSE c.bucket_w
        h == IF r.height >= y THEN Min(c.bucket_h, r.height - y) ELSE c.bucket_h
    IN  [x |-> x, y |-> y, w |-> w, h |-> h]

TileIsJobMut(c, t) == TRUE
\* renderer.rs 172: is the tile pushed
TileIsJob(c, t) ==
    LET r == RenderRegion(c)
    IN  t.x < r.width /\ t.y < r.height /\ t.w > 0 /\ t.h > 0

\* renderer.rs 173-178: the BucketJob of a tile
BucketJob(c, t) ==
    LET r == RenderRegion(c)
    IN  [x |-> r.start_x + t.x, y |-> r.start_y + t.y, w |-> t.w, h |-> t.h]

\* the pixels of a job: bucket.x..(bucket.x + bucket.w) by
\* bucket.y..(bucket.y + bucket.h) (renderer.rs 243-244)
JobPixels(b) == (b.x .. (b.x + b.w - 1)) \X (b.y .. (b.y + b.h - 1))

NoBucket == [x |-> 0, y |-> 0, w |-> 0, h |-> 0]

\* the inputs of render: the image, the crop, the bucket dimension computed
\* from max_samples_per_bucket and spp, the number of threads
RenderInputs(threads, crops) ==
    {[img_width |-> iw, img_height |-> ih, crop |-> cr, spp |-> sp,
      thread_count |-> tc, bucket_w |-> BucketDim(msb, sp),
      bucket_h |-> BucketDim(msb, sp)] :
        iw \in 1..MaxDim, ih \in 1..MaxDim, cr \in crops, sp \in 1..MaxSpp,
        tc \in threads, msb \in 1..MaxSamplesPerBucket}

\* renderer.rs 83-96 and 111-130: the state when the workers have been
\* spawned and the producer is about to populate the queue
InitRenderWith(inputs) ==
    /\ cfg \in inputs
    /\ prod = [pc |-> "populate", hilbert_d |-> 0, stats |-> 0]
    /\ job_queue = <<>>
    /\ all_jobs_queued = FALSE
    /\ workers = [w \in 1..cfg.thread_count |->
                    [pc |-> "try_pop", bucket |-> NoBucket, stats |-> 0,
                     exit_queue_len |-> 0]]
    /\ image = [px \in (0..(cfg.img_width - 1)) \X (0..(cfg.img_height - 1)) |-> 0]
    /\ shared = [pixels_rendered |-> 0, collective_stats |-> 0]
    /\ rhist = [pushed |-> <<>>, popped |-> <<>>, rendered |-> {}]

\* the number of buckets the render region of c is cut into
JobCount(c) ==
    LET r == RenderRegion(c)
    IN  ((r.width + c.bucket_w - 1) \div c.bucket_w)
            * ((r.height + c.bucket_h - 1) \div c.bucket_h)

\* every number of threads, the whole image, at most MaxJobs buckets
InitRender ==
    /\ IdlePath /\ IdleBVH /\ IdleTrace /\ IdleJob /\ IdleLocks /\ IdleUnits
    /\ InitRenderWith({c \in RenderInputs(1..MaxThreads, {NoCrop}) :
                           JobCount(c) <= MaxJobs})

\* one thread, every crop
InitCrop == IdlePath /\ IdleBVH /\ IdleTrace /\ IdleJob /\ IdleLocks /\ IdleUnits /\ InitRenderWith(RenderInputs({1}, Crops \cup {NoCrop}))

\* the renderer of the specifications that are about something else
IdleRender ==
    /\ cfg = <<>> /\ prod = <<>> /\ job_queue = <<>> /\ all_jobs_queued = FALSE
    /\ workers = <<>> /\ image = <<>> /\ shared = <<>> /\ rhist = <<>>

pushMut(q, job) == <<job>> \o q
\* MsQueue::push (renderer.rs 173): the job goes to the back of the queue
push(q, job) == Append(q, job)

\* renderer.rs 157-180: one iteration of "for hilbert_d in 0..bucket_n"
ProducerPopulate ==
    /\ prod.pc = "populate"
    /\ prod.hilbert_d < bucket_n(cfg)
    /\ LET t == Tile(cfg, prod.hilbert_d)
           job == BucketJob(cfg, t)
       IN  IF TileIsJob(cfg, t)
           THEN /\ job_queue' = push(job_queue, job)
                /\ rhist' = [rhist EXCEPT !.pushed = Append(@, job)]
           ELSE UNCHANGED <<job_queue, rhist>>
    /\ prod' = [prod EXCEPT !.hilbert_d = @ + 1]
    /\ UNCHANGED <<cfg, all_jobs_queued, workers, image, shared, notRender>>

\* renderer.rs 183: "Mark done queuing jobs"
ProducerMarkQueued ==
    /\ prod.pc = "populate"
    /\ prod.hilbert_d = bucket_n(cfg)
    /\ all_jobs_queued' = TRUE
    /\ prod' = [prod EXCEPT !.pc = "join"]
    /\ UNCHANGED <<cfg, job_queue, workers, image, shared, rhist, notRender>>

try_popMut(q) == IF q = <<>> THEN <<>> ELSE q
\* MsQueue::try_pop (renderer.rs 233): what is left of the queue
try_pop(q) == IF q = <<>> THEN <<>> ELSE Tail(q)

\* renderer.rs 233-235: try_pop, one atomic operation of the queue
WorkerTryPop(w) ==
    /\ workers[w].pc = "try_pop"
    /\ IF job_queue # <<>>
       THEN /\ workers' = [workers EXCEPT ![w].pc = "render",
                                          ![w].bucket = Head(job_queue)]
            /\ job_queue' = try_pop(job_queue)
            /\ rhist' = [rhist EXCEPT !.popped = Append(@, Head(job_queue))]
       ELSE /\ workers' = [workers EXCEPT ![w].pc = "check"]
            /\ UNCHANGED <<job_queue, rhist>>
    /\ UNCHANGED <<cfg, prod, all_jobs_queued, image, shared, notRender>>

\* renderer.rs 236-238: after a failed try_pop, read all_jobs_queued
WorkerCheckQueued(w) ==
    /\ workers[w].pc = "check"
    /\ workers' = IF all_jobs_queued
                  THEN [workers EXCEPT ![w].pc = "collect",
                                       ![w].exit_queue_len = Len(job_queue)]
                  ELSE [workers EXCEPT ![w].pc = "try_pop"]
    /\ UNCHANGED <<cfg, prod, job_queue, all_jobs_queued, image, shared, rhist, notRender>>

\* renderer.rs 241-338: render the bucket.  Every pixel of the bucket gets
\* spp paths (243-273), each path adds once to its pixel (295-300), and the
\* progress counter grows by the bucket's area (312-317).
WorkerRenderBucket(w) ==
    /\ workers[w].pc = "render"
    /\ LET b == workers[w].bucket
       IN  /\ image' = [px \in DOMAIN image |->
                           IF px \in JobPixels(b) THEN image[px] + cfg.spp
                           ELSE image[px]]
           /\ shared' = [shared EXCEPT !.pixels_rendered = @ + b.w * b.h]
           /\ rhist' = [rhist EXCEPT !.rendered = @ \cup {b}]
    /\ workers' = [workers EXCEPT ![w].pc = "try_pop", ![w].bucket = NoBucket,
                                  ![w].stats = @ + 1]
    /\ UNCHANGED <<cfg, prod, job_queue, all_jobs_queued, notRender>>

\* renderer.rs 341-352: collect the worker's stats under the write lock
WorkerCollectStats(w) ==
    /\ workers[w].pc = "collect"
    /\ shared' = [shared EXCEPT !.collective_stats = @ + workers[w].stats]
    /\ workers' = [workers EXCEPT ![w].pc = "done"]
    /\ UNCHANGED <<cfg, prod, job_queue, all_jobs_queued, image, rhist, notRender>>

\* renderer.rs 184-192: the scope ends when every worker has returned, and
\* render returns the image and the stats
RenderReturn ==
    /\ prod.pc = "join"
    /\ \A w \in DOMAIN workers : workers[w].pc = "done"
    /\ prod' = [prod EXCEPT !.pc = "returned", !.stats = shared.collective_stats]
    /\ UNCHANGED <<cfg, job_queue, all_jobs_queued, workers, image, shared, rhist, notRender>>

NextRender ==
    \/ ProducerPopulate
    \/ ProducerMarkQueued
    \/ \E w \in DOMAIN workers : WorkerTryPop(w)
    \/ \E w \in DOMAIN workers : WorkerCheckQueued(w)
    \/ \E w \in DOMAIN workers : WorkerRenderBucket(w)
    \/ \E w \in DOMAIN workers : WorkerCollectStats(w)
    \/ RenderReturn

SpecRender == InitRender /\ [][NextRender]_vars

SpecCrop == InitCrop /\ [][NextRender]_vars

\* the state after LightPath::new (renderer.rs 257-270): no call of next yet
InitPath ==
    /\ path = NewLightPath
    /\ ray = CameraRay
    /\ hist = [alive |-> TRUE, calls |-> 0, hits |-> 0, bounces |-> 0,
               hit |-> NoHit, last |-> NoCall]
    /\ IdleRender /\ IdleBVH /\ IdleTrace /\ IdleJob /\ IdleLocks /\ IdleUnits

NextPath == CallNext

SpecPath == InitPath /\ [][NextPath]_vars

(***************************************************************************)
(* BVH::from_objects and BVH::traverse as steps (src/src/bvh.rs).          *)
(***************************************************************************)

\* bounds of the inputs of from_objects and traverse
MaxPrims == 3
MaxPerLeaf == 2
MaxSamples == 2
MaxTravPrims == 2
MaxRays == 2
MaxDeepPrims == 67
MaxWalkPrims == 4

\* a cube of side 2 with its least corner at p
Cube(p) == BBox(p, [i \in 1..3 |-> p[i] + 2])

\* the bounds of an object at p that moves by 4 * v along the diagonal
\* during the frame (v is 0 or 1), as len time samples
ObjBounds(p, v, len) ==
    IF len = 1 THEN <<Cube(p)>>
    ELSE [k \in 1..len |->
             Cube([i \in 1..3 |-> p[i] + (k - 1) * (4 \div (len - 1)) * v])]

BuildPositions == {<<0, 0, 0>>, <<4, 0, 0>>, <<0, 4, 0>>}
TravPositions == {<<0, 0, 0>>, <<4, 0, 0>>}
WalkPositions == {<<0, 0, 0>>, <<4, 4, 4>>}

\* the sequences of n objects at the positions, with len time samples each;
\* the id of an object is its place in the input
ObjectSeqs(positions, n, len) ==
    { [k \in 1..n |-> [id |-> k, bounds |-> ObjBounds(c[k][1], c[k][2], len)]] :
        c \in [1..n -> positions \X (IF len = 1 THEN {0} ELSE {0, 1})] }

\* rays: from before the objects or from behind them, at the start, the
\* middle and the end of the frame; the ray at the end is an occlusion ray
\* of limited length
RayTemplates ==
    << [orig |-> <<-2, -2, -2>>, time |-> 0, max_t |-> Infinity, occlusion |-> FALSE],
       [orig |-> <<-2, -2, -2>>, time |-> 1, max_t |-> Infinity, occlusion |-> FALSE],
       [orig |-> <<-2, -2, -2>>, time |-> 2, max_t |-> 5, occlusion |-> TRUE],
       [orig |-> <<8, 8, 8>>, time |-> 0, max_t |-> Infinity, occlusion |-> FALSE],
       [orig |-> <<8, 8, 8>>, time |-> 1, max_t |-> Infinity, occlusion |-> FALSE],
       [orig |-> <<8, 8, 8>>, time |-> 2, max_t |-> 5, occlusion |-> TRUE] >>

\* the directions of a batch: all rays of a batch share the octant
BatchDirs == {<<1, 1, 1>>, <<-1, -1, -1>>}

\* the batches of n different rays of one direction; the id of a ray is its
\* place in the batch
RayBatches(n) ==
    { [k \in 1..n |-> AccelRay(k, RayTemplates[f[k]].orig, dir,
                               RayTemplates[f[k]].time, RayTemplates[f[k]].max_t,
                               RayTemplates[f[k]].occlusion)] :
        f \in {g \in [1..n -> 1..Len(RayTemplates)] :
                  \A i, j \in 1..n : i < j => g[i] < g[j]},
        dir \in BatchDirs }

\* the state before from_objects, for a set of inputs
InitBVHWith(objs, opls) ==
    /\ objects \in objs
    /\ objects_per_leaf \in opls
    /\ rays = <<>>
    /\ bvh = new_empty
    /\ build = NoBuild
    /\ trav = [NoTraverse EXCEPT !.pc = "new"]
    /\ isects = <<>>
    /\ bhist = [objects |-> objects, rays |-> <<>>, tested |-> {},
                nodes |-> {}, calls |-> 0, order |-> <<>>]

\* traversals of the deepest trees: no object, or the last few numbers of
\* objects up to MaxDeepPrims, all with the same bounds
InitDeepWalk ==
    /\ IdlePath /\ IdleRender /\ IdleTrace /\ IdleJob /\ IdleLocks /\ IdleUnits
    /\ InitBVHWith({[k \in 1..n |-> [id |-> k, bounds |-> <<Cube(<<0, 0, 0>>)>>]] :
                       n \in {0} \cup (MaxDeepPrims - 3)..MaxDeepPrims},
                   1..MaxPerLeaf)

\* builds: up to MaxPrims objects
InitBuild ==
    /\ IdlePath /\ IdleRender /\ IdleTrace /\ IdleJob /\ IdleLocks /\ IdleUnits
    /\ InitBVHWith(UNION {ObjectSeqs(BuildPositions, n, len) :
                             n \in 0..MaxPrims, len \in 1..MaxSamples},
                   1..MaxPerLeaf)

\* traversals: up to MaxTravPrims objects
InitTraverse ==
    /\ IdlePath /\ IdleRender /\ IdleTrace /\ IdleJob /\ IdleLocks /\ IdleUnits
    /\ InitBVHWith(UNION {ObjectSeqs(TravPositions, n, len) :
                             n \in 0..MaxTravPrims, len \in 1..MaxSamples},
                   1..MaxPerLeaf)

\* traversals of trees of several levels: up to MaxWalkPrims objects that
\* do not move, on the diagonal the rays follow
InitWalk ==
    /\ IdlePath /\ IdleRender /\ IdleTrace /\ IdleJob /\ IdleLocks /\ IdleUnits
    /\ InitBVHWith(UNION {ObjectSeqs(WalkPositions, n, 1) : n \in 0..MaxWalkPrims},
                   1..MaxPerLeaf)

\* deep trees: up to MaxDeepPrims objects with the same bounds
InitDeep ==
    /\ IdlePath /\ IdleRender /\ IdleTrace /\ IdleJob /\ IdleLocks /\ IdleUnits
    /\ InitBVHWith({[k \in 1..n |-> [id |-> k, bounds |-> <<Cube(<<0, 0, 0>>)>>]] :
                       n \in 0..MaxDeepPrims},
                   1..MaxPerLeaf)

\* a call of recursive_build(offset, depth, .., &mut objects[offset..offset+len])
\* at its start; me is nodes.len() (bvh.rs 90)
Frame(me, offset, len, depth) ==
    [pc |-> "enter", me |-> me, offset |-> offset, len |-> len, depth |-> depth,
     split_index |-> 0, split_axis |-> 0, c1_bounds |-> <<0, 0>>]

\* the frame of the call that is running, and its slice of the objects
Top == build.stack[Len(build.stack)]
TopObjects == Slice(objects, Top.offset, Top.offset + Top.len)

\* a return of recursive_build
Return(index, br) ==
    [stack |-> SubSeq(build.stack, 1, Len(build.stack) - 1),
     ret |-> [index |-> index, br |-> br]]

\* a call of recursive_build from the running call, which goes on at pc
Call(frame, child) ==
    [build EXCEPT !.stack = SubSeq(@, 1, Len(@) - 1) \o <<frame, child>>]

\* bvh.rs 48-53: BVH::from_objects, up to the call of recursive_build
FromObjects ==
    /\ trav.pc = "new"
    /\ bvh' = new_empty
    /\ build' = [NoBuild EXCEPT !.stack = <<Frame(0, 0, Len(objects), 0)>>]
    /\ trav' = [trav EXCEPT !.pc = "building"]
    /\ UNCHANGED <<objects, objects_per_leaf, rays, isects, bhist, notBVH>>

\* bvh.rs 92-93: no object
BuildEmpty ==
    /\ trav.pc = "building" /\ build.stack # <<>>
    /\ Top.pc = "enter"
    /\ Top.len = 0
    /\ build' = Return(0, <<0, 0>>)
    /\ UNCHANGED <<objects, objects_per_leaf, bvh, rays, trav, isects, bhist, notBVH>>

WithLeafMut(b, f, cache) ==
    [nodes |-> Append(b.nodes,
                      Leaf(<<Len(b.bounds), Len(b.bounds) + Len(cache)>>,
                           <<0, f.len>>)),
     bounds |-> b.bounds \o cache,
     depth |-> IF b.depth < f.depth THEN f.depth ELSE b.depth,
     bounds_cache |-> cache]
\* bvh.rs 96-108: the leaf pushed (cache is bounds_cache after acc_bounds)
WithLeaf(b, f, cache) ==
    [nodes |-> Append(b.nodes,
                      Leaf(<<Len(b.bounds), Len(b.bounds) + Len(cache)>>,
                           <<f.offset, f.offset + f.len>>)),
     bounds |-> b.bounds \o cache,
     depth |-> IF b.depth < f.depth THEN f.depth ELSE b.depth,
     bounds_cache |-> cache]

\* bvh.rs 94-110: a leaf node
BuildLeaf ==
    /\ trav.pc = "building" /\ build.stack # <<>>
    /\ Top.pc = "enter"
    /\ Top.len > 0 /\ Top.len <= objects_per_leaf
    /\ bvh' = WithLeaf(bvh, Top, acc_bounds(TopObjects))
    /\ build' = Return(Top.me, <<Len(bvh.bounds), Len(bvh'.bounds)>>)
    /\ UNCHANGED <<objects, objects_per_leaf, rays, trav, isects, bhist, notBVH>>

\* bvh.rs 196, 223: the objects of the running call reordered in place
Reordered(objs, f, slice) ==
    SubSeq(objs, 1, f.offset) \o slice \o SubSeq(objs, f.offset + f.len + 1, Len(objs))

\* bvh.rs 112-247: an internal node, up to the call for the first child
SplitAt(split) ==
    /\ objects' = Reordered(objects, Top, split.objects)
    /\ bvh' = [bvh EXCEPT !.nodes = Append(@, Internal(<<0, 0>>, 0, 0))]
    /\ build' = Call([Top EXCEPT !.pc = "first",
                                 !.split_index = split.split_index,
                                 !.split_axis = split.split_axis],
                     Frame(Len(bvh.nodes) + 1, Top.offset, split.split_index,
                           Top.depth + 1))
BuildSplit ==
    /\ trav.pc = "building" /\ build.stack # <<>>
    /\ Top.pc = "enter"
    /\ Top.len > objects_per_leaf
    /\ SplitAt(Split(TopObjects, TimeBounds(TopObjects), Top.depth))
    /\ UNCHANGED <<objects_per_leaf, rays, trav, isects, bhist, notBVH>>

\* bvh.rs 243-252: the first child has returned: the call for the second
BuildSecond ==
    /\ trav.pc = "building" /\ build.stack # <<>>
    /\ Top.pc = "first"
    /\ build' = Call([Top EXCEPT !.pc = "second", !.c1_bounds = build.ret.br],
                     Frame(Len(bvh.nodes), Top.offset + Top.split_index,
                           Top.len - Top.split_index, Top.depth + 1))
    /\ UNCHANGED <<objects, objects_per_leaf, bvh, rays, trav, isects, bhist, notBVH>>

WithNodeMut(b, f, c2_index, merged) ==
    [b EXCEPT !.nodes[f.me + 1] =
                  Internal(<<Len(b.bounds) - Len(merged), Len(b.bounds)>>,
                           c2_index, f.split_axis)]
\* bvh.rs 256-269: the merged bounds appended and the node set
WithNode(b, f, c2_index, merged) ==
    [b EXCEPT !.bounds = @ \o merged,
              !.nodes[f.me + 1] =
                  Internal(<<Len(b.bounds), Len(b.bounds) + Len(merged)>>,
                           c2_index, f.split_axis)]

\* bvh.rs 254-271: the second child has returned
BuildSetNode ==
    /\ trav.pc = "building" /\ build.stack # <<>>
    /\ Top.pc = "second"
    /\ bvh' = WithNode(bvh, Top, build.ret.index,
                       merge_slices_append(
                           Slice(bvh.bounds, Top.c1_bounds[1], Top.c1_bounds[2]),
                           Slice(bvh.bounds, build.ret.br[1], build.ret.br[2])))
    /\ build' = Return(Top.me, <<Len(bvh.bounds), Len(bvh'.bounds)>>)
    /\ UNCHANGED <<objects, objects_per_leaf, rays, trav, isects, bhist, notBVH>>

\* bvh.rs 54-57: recursive_build has returned to from_objects
FromObjectsReturn ==
    /\ trav.pc = "building" /\ build.stack = <<>>
    /\ bvh' = [bvh EXCEPT !.bounds_cache = <<>>]
    /\ trav' = [trav EXCEPT !.pc = "built"]
    /\ UNCHANGED <<objects, objects_per_leaf, build, rays, isects, bhist, notBVH>>

\* the batches given to traverse: up to MaxRays rays, and single rays for
\* the trees of BVH_MAX_DEPTH objects and more
TravBatches ==
    IF Len(objects) >= BVH_MAX_DEPTH THEN RayBatches(1)
    ELSE UNION {RayBatches(n) : n \in 0..MaxRays}

\* bvh.rs 276-286: a call of traverse with a batch of rays
TraverseBegin ==
    /\ trav.pc = "built"
    /\ \E batch \in TravBatches :
        /\ rays' = batch
        /\ isects' = [id \in 1..Len(batch) |-> NoIsect]
        /\ bhist' = [bhist EXCEPT !.rays = batch]
        /\ trav' = IF Len(bvh.nodes) = 0
                   THEN [trav EXCEPT !.pc = "returned"]
                   ELSE [pc |-> "loop",
                         i_stack |-> [k \in 1..StackSize |-> 0],
                         ray_i_stack |-> [k \in 1..StackSize |-> Len(batch)],
                         stack_ptr |-> 1]
    /\ UNCHANGED <<objects, objects_per_leaf, bvh, build, notBVH>>

PopMut(t) ==
    [t EXCEPT !.stack_ptr = @ - 1,
              !.pc = IF t.stack_ptr - 1 > 1 THEN "loop" ELSE "returned"]
\* bvh.rs 305, 320: stack_ptr -= 1, and the test of the while
Pop(t) ==
    [t EXCEPT !.stack_ptr = @ - 1,
              !.pc = IF t.stack_ptr - 1 > 0 THEN "loop" ELSE "returned"]

\* bvh.rs 296-303: the children pushed, the nearer one on top; a write
\* past the end of i_stack panics
PushAtMut(t, sp, first, second, part, swap) ==
    IF sp + 1 >= StackSize
    THEN [t EXCEPT !.pc = "panicked"]
    ELSE [t EXCEPT !.i_stack[sp + 1] = IF swap THEN first ELSE second,
                   !.i_stack[sp + 2] = IF swap THEN second ELSE first,
                   !.ray_i_stack[sp + 1] = part,
                   !.ray_i_stack[sp + 2] = part,
                   !.stack_ptr = sp + 1]
PushAt(t, sp, first, second, part, swap) ==
    IF sp + 1 >= StackSize
    THEN [t EXCEPT !.pc = "panicked"]
    ELSE [t EXCEPT !.i_stack[sp + 1] = IF swap THEN second ELSE first,
                   !.i_stack[sp + 2] = IF swap THEN first ELSE second,
                   !.ray_i_stack[sp + 1] = part,
                   !.ray_i_stack[sp + 2] = part,
                   !.stack_ptr = sp + 1]
PushChildren(t, node, part, rs) ==
    PushAt(t, t.stack_ptr, t.i_stack[t.stack_ptr + 1] + 1, node.second_child_index,
           part, is_sign_positive(rs[1].dir_inv[node.split_axis + 1]))

\* bvh.rs 289: self.nodes[i_stack[stack_ptr]], kept in the history with the
\* stack position, the count of the entry, the result of the partition and
\* the dir_inv of rays[0] after it
Visited(h, p) ==
    [h EXCEPT !.nodes = @ \cup {trav.i_stack[trav.stack_ptr + 1]},
              !.order = Append(@, [node |-> trav.i_stack[trav.stack_ptr + 1],
                                   sp |-> trav.stack_ptr,
                                   count |-> trav.ray_i_stack[trav.stack_ptr + 1],
                                   part |-> p.part,
                                   dir_inv |-> IF p.part > 0 THEN p.rays[1].dir_inv
                                               ELSE <<>>])]

\* bvh.rs 290-307: an internal node
StepInternal(node, p) ==
    /\ rays' = p.rays
    /\ trav' = IF p.part > 0
               THEN PushChildren(trav, node, p.part, p.rays)
               ELSE Pop(trav)
    /\ bhist' = Visited(bhist, p)
    /\ UNCHANGED isects

\* bvh.rs 309-321: a leaf some rays enter; st is what the callbacks leave
StepTested(objs, p, st) ==
    /\ rays' = st.rays \o SubSeq(p.rays, p.part + 1, Len(p.rays))
    /\ isects' = st.isects
    /\ bhist' = Visited([bhist EXCEPT
                    !.tested = @ \cup
                        {<<objs[k].id, p.rays[i].id>> :
                            k \in 1..Len(objs), i \in 1..p.part},
                    !.calls = @ + Len(objs)], p)
    /\ trav' = Pop(trav)

\* bvh.rs 309-321: a leaf no ray enters
StepUntested(p) ==
    /\ rays' = p.rays
    /\ bhist' = Visited(bhist, p)
    /\ trav' = Pop(trav)
    /\ UNCHANGED isects

LivePrefixMut(p) == p.rays
\* bvh.rs 316: &mut rays[..part]
LivePrefix(p) == SubSeq(p.rays, 1, p.part)

TestsLeafMut(p) == TRUE
\* bvh.rs 314: "if part > 0"
TestsLeaf(p) == p.part > 0

StepLeaf(objs, p) ==
    IF TestsLeaf(p)
    THEN StepTested(objs, p,
                    TestObjects(objs, 1,
                                [rays |-> LivePrefix(p), isects |-> isects]))
    ELSE StepUntested(p)

\* bvh.rs 289-322: the match on the node, after the partition of the rays
StepNode(node, p) ==
    IF node.kind = "Internal"
    THEN StepInternal(node, p)
    ELSE StepLeaf(LeafObjects(objects, node.object_range), p)
StepAt(node, n) == StepNode(node, PartitionRays(bvh, node.bounds_range, rays, n))

\* bvh.rs 288-323: one iteration of "while stack_ptr > 0"
TraverseStep ==
    /\ trav.pc = "loop"
    /\ trav.stack_ptr > 0
    /\ StepAt(bvh.nodes[trav.i_stack[trav.stack_ptr + 1] + 1],
              trav.ray_i_stack[trav.stack_ptr + 1])
    /\ UNCHANGED <<objects, objects_per_leaf, bvh, build, notBVH>>

NextBuild ==
    \/ FromObjects
    \/ BuildEmpty
    \/ BuildLeaf
    \/ BuildSplit
    \/ BuildSecond
    \/ BuildSetNode
    \/ FromObjectsReturn

NextBVH ==
    \/ FromObjects
    \/ BuildEmpty
    \/ BuildLeaf
    \/ BuildSplit
    \/ BuildSecond
    \/ BuildSetNode
    \/ FromObjectsReturn
    \/ TraverseBegin
    \/ TraverseStep

SpecBuild == InitBuild /\ [][NextBuild]_vars

SpecTraverse == InitTraverse /\ [][NextBVH]_vars

SpecWalk == InitWalk /\ [][NextBVH]_vars

SpecDeepWalk == InitDeepWalk /\ [][NextBVH]_vars

\* an iteration of the loop of traverse
LoopIteration == trav.pc = "loop" /\ bhist'.order # bhist.order

\* the thread that runs traverse goes on running: weak fairness of the
\* iterations of the loop, written out with the condition of the while,
\* under which TraverseStep is enabled
SpecDeepWalkFair ==
    SpecDeepWalk /\ ([]<>(trav.pc # "loop") \/ []<><<LoopIteration>>_vars)

SpecDeep == InitDeep /\ [][NextBuild]_vars

\* the builds of both kinds of input
SpecBuilds == (InitBuild \/ InitDeep) /\ [][NextBuild]_vars


----------------------------------------------------------------------------
(***************************************************************************)
(* split_rays_by_direction and Tracer::trace as steps (src/src/tracer.rs). *)
(***************************************************************************)

\* BVH::from_objects on one object: a single leaf
LeafBVH(objs) == WithLeaf(new_empty, [offset |-> 0, len |-> Len(objs), depth |-> 0],
                          acc_bounds(objs))

\* an assembly with one instance of the surface, transformed by xf or not
ChildAssembly(xf) ==
    [instances |-> <<Instance(1, "Object", 0, IF xf = None THEN None ELSE <<0, 1>>,
                              InstanceBounds(xf, Surface.bounds))>>,
     xforms |-> IF xf = None THEN <<>> ELSE xf,
     objects |-> <<Surface>>,
     assemblies |-> <<>>,
     object_accel |-> LeafBVH(<<Instance(1, "Object", 0,
                                         IF xf = None THEN None ELSE <<0, 1>>,
                                         InstanceBounds(xf, Surface.bounds))>>)]

\* the transforms of the root assembly: a translation and a mirroring
RootXforms ==
    << Xform(<<1, 1, 1>>, <<-4, 0, 0>>), Xform(<<-1, -1, -1>>, <<2, 6, 2>>) >>

\* the assemblies of the root assembly: one, whose instance is translated
RootAssemblies == << ChildAssembly(<<Xform(<<1, 1, 1>>, <<0, -4, 0>>)>>) >>

\* the instances of the root assembly are the objects of its BVH
AssemblyAt(a) ==
    IF a = 0
    THEN [instances |-> objects, xforms |-> RootXforms, objects |-> <<Surface>>,
          assemblies |-> RootAssemblies, object_accel |-> bvh]
    ELSE RootAssemblies[a]

\* the instances a root assembly is made of: the surface or the nested
\* assembly, untransformed or within a range of RootXforms
InstanceKinds ==
    { <<"Object", None>>, <<"Object", <<0, 1>>>>, <<"Object", <<1, 2>>>>,
      <<"Assembly", None>>, <<"Assembly", <<1, 2>>>> }
KindInstance(id, kind) ==
    Instance(id, kind[1], 0, kind[2],
             InstanceBounds(IF kind[2] = None THEN None
                            ELSE Slice(RootXforms, kind[2][1], kind[2][2]),
                            IF kind[1] = "Object" THEN Surface.bounds
                            ELSE BVHBounds(RootAssemblies[1].object_accel)))

\* bounds of the scenes and of the batches of world rays
MaxInstances == 2
MaxTraceRays == 2

\* the world rays: one that hits the untransformed surface and the nested
\* one, two that enter the bounds of one of these and pass the shape, one
\* that hits the translated surface, and an occlusion ray from the other
\* side that is too short to reach anything
WRayTemplates ==
    << Ray(<<-2, -2, -2>>, <<1, 1, 1>>, 0, Infinity, FALSE),
       Ray(<<-2, -2, 2>>, <<1, 1, 1>>, 0, Infinity, FALSE),
       Ray(<<-2, -2, -6>>, <<1, 1, 1>>, 0, Infinity, FALSE),
       Ray(<<2, -2, -2>>, <<1, 1, 1>>, 0, Infinity, FALSE),
       Ray(<<8, 8, 8>>, <<-1, -1, -1>>, 0, 5, TRUE) >>

\* the batches of up to n world rays, in the order of the templates
WRayBatchesOf(m) ==
    { [k \in 1..m |-> WRayTemplates[f[k]]] :
        f \in {g \in [1..m -> 1..Len(WRayTemplates)] :
                  \A i, j \in 1..m : i < j => g[i] < g[j]} }
WRayBatches(n) == UNION {WRayBatchesOf(m) : m \in 0..n}

\* a root assembly of up to MaxInstances instances, before its BVH is built
\* and before the call of trace
InitTrace ==
    /\ IdlePath /\ IdleRender /\ IdleJob /\ IdleLocks /\ IdleUnits
    /\ \E n \in 0..MaxInstances :
           \E kinds \in [1..n -> InstanceKinds] :
               objects = [k \in 1..n |-> KindInstance(k, kinds[k])]
    /\ objects_per_leaf \in {1, 2}
    /\ rays = <<>>
    /\ bvh = new_empty
    /\ build = NoBuild
    /\ trav = [NoTraverse EXCEPT !.pc = "new"]
    /\ isects = <<>>
    /\ bhist = [objects |-> objects, rays |-> <<>>, tested |-> {}]
    /\ tr = [NoTrace EXCEPT !.pc = "new"]

\* rays[base .. base + len] of the tracer, and the rays with it replaced
WinGet(rs, base, len) == SubSeq(rs, base + 1, base + len)
WinPut(rs, base, new) ==
    SubSeq(rs, 1, base) \o new \o SubSeq(rs, base + Len(new) + 1, Len(rs))

\* the first non-empty ray set from set k on, nsets if there is none
\* (tracer.rs 61, 128: ray_sets.iter_mut().filter(|ray_set| !ray_set.is_empty()))
FirstSet(s, k, nsets) ==
    IF \E i \in k..(nsets - 1) : s[i + 1] < s[i + 2]
    THEN CHOOSE i \in k..(nsets - 1) :
             /\ s[i + 1] < s[i + 2]
             /\ \A j \in k..(i - 1) : s[j + 1] = s[j + 2]
    ELSE nsets

\* bvh.rs 276-286: the start of traverse on the rays [base, base + len) with
\* the instances of assembly a
TraverseFrame(a, base, len) ==
    [kind |-> "traverse", asm |-> a, base |-> base, len |-> len,
     t |-> [pc |-> "loop",
            i_stack |-> [k \in 1..StackSize |-> 0],
            ray_i_stack |-> [k \in 1..StackSize |-> len],
            stack_ptr |-> 1],
     mode |-> "node", k |-> 0, k_end |-> 0, part |-> 0]

\* tracer.rs 68-76, bvh.rs 279-281: a call of trace_assembly: traverse
\* returns at once when the BVH has no node
CallTraceAssembly(stack, a, base, len) ==
    IF Len(AssemblyAt(a).object_accel.nodes) = 0 THEN stack
    ELSE Append(stack, TraverseFrame(a, base, len))

\* the call in progress, and the calls with the one in progress replaced
TopFrame == tr.stack[Len(tr.stack)]
SetTop(stack, f) == [stack EXCEPT ![Len(stack)] = f]

\* tracer.rs 30-39, 49-60: trace, up to the loop over the ray sets
TraceStart(wrays, sp) ==
    [tr EXCEPT !.pc = "sets", !.wrays = wrays, !.rays = sp.rays,
               !.isects = [k \in 1..Len(wrays) |-> NoIsect],
               !.s = sp.s, !.set_i = 0]
TraceBegin ==
    /\ trav.pc = "built" /\ tr.pc = "new"
    /\ \E wrays \in WRayBatches(MaxTraceRays) :
           tr' = TraceStart(wrays, split_rays_by_direction(
                                       [k \in 1..Len(wrays) |-> AccelRayNew(wrays[k], k)]))
    /\ UNCHANGED <<bvhVars, notTrace>>

\* tracer.rs 61-63: trace_assembly(root, ..) for the next non-empty ray set
TraceSetAt(k) ==
    [tr EXCEPT !.set_i = k + 1,
               !.stack = CallTraceAssembly(<<>>, 0, tr.s[k + 1], tr.s[k + 2] - tr.s[k + 1])]
TraceSet ==
    /\ tr.pc = "sets" /\ tr.stack = <<>>
    /\ FirstSet(tr.s, tr.set_i, 8) < 8
    /\ tr' = TraceSetAt(FirstSet(tr.s, tr.set_i, 8))
    /\ UNCHANGED <<bvhVars, notTrace>>

\* tracer.rs 65: no ray set is left
TraceReturn ==
    /\ tr.pc = "sets" /\ tr.stack = <<>>
    /\ FirstSet(tr.s, tr.set_i, 8) = 8
    /\ tr' = [tr EXCEPT !.pc = "returned"]
    /\ UNCHANGED <<bvhVars, notTrace>>

\* bvh.rs 289-322 inside trace_assembly: the match on the node, p being the
\* partition of the rays of the frame
NodeInternal(f, node, p) ==
    [f EXCEPT !.t = IF p.part > 0 THEN PushChildren(f.t, node, p.part, p.rays)
                    ELSE Pop(f.t)]
NodeLeaf(f, node, p) ==
    IF p.part > 0
    THEN [f EXCEPT !.mode = "objs", !.k = node.object_range[1],
                   !.k_end = node.object_range[2], !.part = p.part]
    ELSE [f EXCEPT !.t = Pop(f.t)]
NodeStep(f, node, p) ==
    [tr EXCEPT !.rays = WinPut(tr.rays, f.base, p.rays),
               !.stack = SetTop(tr.stack,
                                IF node.kind = "Internal" THEN NodeInternal(f, node, p)
                                ELSE NodeLeaf(f, node, p))]
NodeAt(f, acc, node) ==
    NodeStep(f, node,
             PartitionRays(acc, node.bounds_range, WinGet(tr.rays, f.base, f.len),
                           f.t.ray_i_stack[f.t.stack_ptr + 1]))

\* bvh.rs 288-314: one iteration of the loop of traverse, up to the calls
\* of the callback
TraverseNode ==
    /\ tr.pc = "sets" /\ tr.stack # <<>>
    /\ TopFrame.kind = "traverse" /\ TopFrame.t.pc = "loop" /\ TopFrame.mode = "node"
    /\ tr' = NodeAt(TopFrame, AssemblyAt(TopFrame.asm).object_accel,
                    AssemblyAt(TopFrame.asm).object_accel.nodes[
                        TopFrame.t.i_stack[TopFrame.t.stack_ptr + 1] + 1])
    /\ UNCHANGED <<bvhVars, notTrace>>

\* history: the callback was entered or left with the transform stack at
\* depth, which was at before when the callback was entered; ids are the
\* rays of the frame f
Event(ev, depth, before, f) ==
    [ev |-> ev, depth |-> depth, before |-> before,
     ids |-> {tr.rays[i].id :
                 i \in (f.base + 1)..(f.base + (IF f.kind = "callback" THEN f.len
                                                ELSE f.part))}]

\* the callback on an instance and the rays [base, base + len): s are the
\* boundaries of its ray sets, of which nsets are used
CallbackFrame(a, inst, base, len, s, nsets, depth) ==
    [kind |-> "callback", asm |-> a, inst |-> inst, base |-> base, len |-> len,
     s |-> s, set_i |-> 0, nsets |-> nsets, depth |-> depth]

XformRaysMut(rs, wrays, xforms) == rs
\* tracer.rs 84-92: the rays re-made from their world rays with the top of
\* the transform stack
XformRays(rs, wrays, xforms) ==
    [i \in 1..Len(rs) |->
        update_from_xformed_world_ray(rs[i], wrays[rs[i].id], XformAt(xforms, rs[i].time))]

\* tracer.rs 79-125: an instance with transform_indices: push, transform the
\* rays and split them by direction
EnterSplit(f, inst, stack, sp) ==
    [tr EXCEPT !.xform_stack = stack,
               !.rays = WinPut(tr.rays, f.base, sp.rays),
               !.stack = Append(tr.stack,
                                CallbackFrame(f.asm, inst, f.base, f.part, sp.s, 8,
                                              Len(tr.xform_stack))),
               !.hist = Append(tr.hist, Event("push", Len(stack), Len(tr.xform_stack), f))]
EnterPushed(f, inst, stack) ==
    EnterSplit(f, inst, stack,
               split_rays_by_direction(
                   XformRays(WinGet(tr.rays, f.base, f.part), tr.wrays, xform_top(stack))))
EnterXformed(f, inst, xforms) ==
    EnterPushed(f, inst,
                xform_push(tr.xform_stack,
                           Slice(xforms, inst.transform_indices[1], inst.transform_indices[2])))

\* tracer.rs 107-125: an instance without: the rays as they are, one ray set
EnterPlain(f, inst) ==
    [tr EXCEPT !.stack = Append(tr.stack,
                                CallbackFrame(f.asm, inst, f.base, f.part,
                                              <<0>> \o [i \in 1..8 |-> f.part], 1,
                                              Len(tr.xform_stack))),
               !.hist = Append(tr.hist, Event("enter", Len(tr.xform_stack), Len(tr.xform_stack), f))]

EnterMut(f, inst, xforms) == EnterPlain(f, inst)
\* bvh.rs 315-316, tracer.rs 77-125: the callback is called on the next
\* instance of the leaf
Enter(f, inst, xforms) ==
    IF inst.transform_indices # None THEN EnterXformed(f, inst, xforms)
    ELSE EnterPlain(f, inst)
CallInstance ==
    /\ tr.pc = "sets" /\ tr.stack # <<>>
    /\ TopFrame.kind = "traverse" /\ TopFrame.mode = "objs"
    /\ tr' = Enter(TopFrame, AssemblyAt(TopFrame.asm).instances[TopFrame.k + 1],
                   AssemblyAt(TopFrame.asm).xforms)
    /\ UNCHANGED <<bvhVars, notTrace>>

\* tracer.rs 179-217: trace_object: surface.intersect_rays on a ray set
TraceObjectAt(c, k, base, win, obj) ==
    [tr EXCEPT !.rays = WinPut(tr.rays, base, intersect_rays(obj, win, tr.isects).rays),
               !.isects = intersect_rays(obj, win, tr.isects).isects,
               !.stack = SetTop(tr.stack, [c EXCEPT !.set_i = k + 1])]
TraceObject(c, k) ==
    TraceObjectAt(c, k, c.base + c.s[k + 1],
                  WinGet(tr.rays, c.base + c.s[k + 1], c.s[k + 2] - c.s[k + 1]),
                  AssemblyAt(c.asm).objects[c.inst.data_index + 1])

\* tracer.rs 128-139: the next non-empty ray set, given to trace_object
CallbackObject ==
    /\ tr.pc = "sets" /\ tr.stack # <<>>
    /\ TopFrame.kind = "callback"
    /\ FirstSet(TopFrame.s, TopFrame.set_i, TopFrame.nsets) < TopFrame.nsets
    /\ TopFrame.inst.instance_type = "Object"
    /\ tr' = TraceObject(TopFrame, FirstSet(TopFrame.s, TopFrame.set_i, TopFrame.nsets))
    /\ UNCHANGED <<bvhVars, notTrace>>

\* tracer.rs 128-129, 141-147: the next non-empty ray set, given to
\* trace_assembly
TraceNested(c, k) ==
    [tr EXCEPT !.stack = CallTraceAssembly(SetTop(tr.stack, [c EXCEPT !.set_i = k + 1]),
                                           c.inst.data_index + 1,
                                           c.base + c.s[k + 1], c.s[k + 2] - c.s[k + 1])]
CallbackAssembly ==
    /\ tr.pc = "sets" /\ tr.stack # <<>>
    /\ TopFrame.kind = "callback"
    /\ FirstSet(TopFrame.s, TopFrame.set_i, TopFrame.nsets) < TopFrame.nsets
    /\ TopFrame.inst.instance_type = "Assembly"
    /\ tr' = TraceNested(TopFrame, FirstSet(TopFrame.s, TopFrame.set_i, TopFrame.nsets))
    /\ UNCHANGED <<bvhVars, notTrace>>

\* tracer.rs 159-173: the rays re-made from their world rays, with what is
\* left on the transform stack
RestoreRays(rs, wrays, xforms) ==
    [i \in 1..Len(rs) |->
        IF xforms # <<>>
        THEN update_from_xformed_world_ray(rs[i], wrays[rs[i].id],
                                           XformAt(xforms, rs[i].time))
        ELSE update_from_world_ray(rs[i], wrays[rs[i].id])]

\* bvh.rs 315-320: back in traverse after the callback: the next instance
\* of the leaf, or stack_ptr -= 1 after the last
AfterCallback(f) ==
    IF f.k + 1 < f.k_end THEN [f EXCEPT !.k = f.k + 1]
    ELSE [f EXCEPT !.k = f.k + 1, !.mode = "node", !.t = Pop(f.t)]
Leave(stack) ==
    SetTop(SubSeq(stack, 1, Len(stack) - 1), AfterCallback(stack[Len(stack) - 1]))

\* tracer.rs 152-174: no ray set is left: pop the transforms, restore the
\* rays and return to traverse
LeaveXformed(c, stack) ==
    [tr EXCEPT !.xform_stack = stack,
               !.rays = WinPut(tr.rays, c.base,
                               RestoreRays(WinGet(tr.rays, c.base, c.len), tr.wrays,
                                           xform_top(stack))),
               !.stack = Leave(tr.stack),
               !.hist = Append(tr.hist, Event("pop", Len(stack), c.depth, c))]
LeavePlain(c) ==
    [tr EXCEPT !.stack = Leave(tr.stack),
               !.hist = Append(tr.hist, Event("leave", Len(tr.xform_stack), c.depth, c))]
CallbackReturn ==
    /\ tr.pc = "sets" /\ tr.stack # <<>>
    /\ TopFrame.kind = "callback"
    /\ FirstSet(TopFrame.s, TopFrame.set_i, TopFrame.nsets) = TopFrame.nsets
    /\ tr' = IF TopFrame.inst.transform_indices # None
             THEN LeaveXformed(TopFrame, xform_pop(tr.xform_stack))
             ELSE LeavePlain(TopFrame)
    /\ UNCHANGED <<bvhVars, notTrace>>

\* bvh.rs 323-324: stack_ptr is 0 (or a write beyond i_stack has panicked):
\* traverse and trace_assembly return
TraverseReturn ==
    /\ tr.pc = "sets" /\ tr.stack # <<>>
    /\ TopFrame.kind = "traverse" /\ TopFrame.mode = "node" /\ TopFrame.t.pc # "loop"
    /\ tr' = IF TopFrame.t.pc = "panicked"
             THEN [tr EXCEPT !.pc = "panicked"]
             ELSE [tr EXCEPT !.stack = SubSeq(tr.stack, 1, Len(tr.stack) - 1)]
    /\ UNCHANGED <<bvhVars, notTrace>>

NextTrace ==
    \/ FromObjects
    \/ BuildEmpty
    \/ BuildLeaf
    \/ BuildSplit
    \/ BuildSecond
    \/ BuildSetNode
    \/ FromObjectsReturn
    \/ TraceBegin
    \/ TraceSet
    \/ TraceReturn
    \/ TraverseNode
    \/ CallInstance
    \/ CallbackObject
    \/ CallbackAssembly
    \/ CallbackReturn
    \/ TraverseReturn

SpecTrace == InitTrace /\ [][NextTrace]_vars

\* bound of the number of rays given to split_rays_by_direction
MaxSplitRays == 3

\* the directions with components 1 or -1
Octants == {<<x, y, z>> : x \in {-1, 1}, y \in {-1, 1}, z \in {-1, 1}}

\* rays from the origin in any directions, with their places as ids
InitSplit ==
    /\ IdlePath /\ IdleRender /\ IdleBVH /\ IdleJob /\ IdleLocks /\ IdleUnits
    /\ \E n \in 0..MaxSplitRays :
           \E dirs \in [1..n -> Octants] :
               tr = [NoTrace EXCEPT
                        !.pc = "split",
                        !.rays = [k \in 1..n |->
                                     AccelRay(k, <<0, 0, 0>>, dirs[k], 0, Infinity, FALSE)]]

\* tracer.rs 221-243: a call of split_rays_by_direction
SplitRays ==
    /\ tr.pc = "split"
    /\ tr' = [tr EXCEPT !.pc = "split_done",
                        !.hist = tr.rays,
                        !.rays = split_rays_by_direction(tr.rays).rays,
                        !.s = split_rays_by_direction(tr.rays).s]
    /\ UNCHANGED <<bvhVars, notTrace>>

NextSplit == SplitRays

SpecSplit == InitSplit /\ [][NextSplit]_vars

(***************************************************************************)
(* render_job path by path (src/src/renderer.rs, 226-301)                  *)
(***************************************************************************)

\* bounds of the inputs of render_job
MaxJobSpp == 2
\* the number of calls of next a path answers true to
MaxRounds == 2

partition_pairMut(slc1, slc2, f) ==
    [slc1 |-> Slice(partition(slc1, f).slc, 0, partition(slc1, f).n),
     slc2 |-> Slice(partition(slc2, f).slc, 0, partition(slc2, f).n),
     n |-> partition(slc1, f).n]
\* algorithm::partition_pair on two slices of the same length whose pairs
\* carry the predicate's value in f: the same swaps on both slices, the
\* pairs with f first; returns their number
partition_pair(slc1, slc2, f) ==
    [slc1 |-> partition(slc1, f).slc,
     slc2 |-> partition(slc2, f).slc,
     n |-> partition(slc1, f).n]

\* Vec::clear
clear(v) == <<>>

\* renderer.rs 243-246: the pixel and the sample index of the k-th path
\* (from 0) pushed for a bucket: "for y", "for x", "for si"
PathPixel(b, spp, k) ==
    <<b.x + ((k \div spp) % b.w), b.y + (k \div (spp * b.w))>>
PathSample(spp, k) == k % spp

\* renderer.rs 257-270: the LightPath and the ray LightPath::new returns.
\* round counts the calls of next; the ray remembers the path that wrote it.
\* alive and got are not fields of the struct: what the path's latest call of
\* next returned, and the ray whose intersection that call was given.
NotCalled == [pixel_co |-> <<0, 0>>, si |-> 0, round |-> -1]
JobPath(pixel_co, si) ==
    [pixel_co |-> pixel_co, si |-> si, round |-> 0, alive |-> TRUE, got |-> NotCalled]
JobRay(pixel_co, si) == [pixel_co |-> pixel_co, si |-> si, round |-> 0]

\* renderer.rs 243-273: the paths and the rays pushed for a bucket
NewPaths(b, spp) ==
    [k \in 1..(b.w * b.h * spp) |->
        JobPath(PathPixel(b, spp, k - 1), PathSample(spp, k - 1))]
NewRays(b, spp) ==
    [k \in 1..(b.w * b.h * spp) |->
        JobRay(PathPixel(b, spp, k - 1), PathSample(spp, k - 1))]

\* the locals of render_job before its first bucket
NoJob == [paths |-> <<>>, rays |-> <<>>, pi |-> 0, bucket |-> NoBucket,
          contrib |-> <<>>, before |-> <<>>]

\* the inputs of render when render_job is followed path by path
JobInputs ==
    {[img_width |-> iw, img_height |-> ih, crop |-> NoCrop, spp |-> sp,
      thread_count |-> 1, bucket_w |-> BucketDim(msb, sp),
      bucket_h |-> BucketDim(msb, sp)] :
        iw \in 1..MaxDim, ih \in 1..MaxDim, sp \in 1..MaxJobSpp,
        msb \in 1..MaxSamplesPerBucket}

InitJob ==
    /\ IdlePath /\ IdleBVH /\ IdleTrace /\ IdleLocks /\ IdleUnits
    /\ InitRenderWith(JobInputs)
    /\ rj = [w \in 1..cfg.thread_count |-> NoJob]

\* what the steps of render_job inside a bucket leave alone
notBucket == <<cfg, prod, job_queue, all_jobs_queued, pathVars, bvhVars, traceVars, lockVars, unitVars>>

\* renderer.rs 227-228 and 243-275: the buffers cleared at the top of the
\* loop, then the paths and the rays of the bucket that was popped
JobGenerate(w) ==
    /\ workers[w].pc = "render"
    /\ LET b == workers[w].bucket
           paths == clear(rj[w].paths) \o NewPaths(b, cfg.spp)
       IN  rj' = [rj EXCEPT ![w] =
                     [paths |-> paths,
                      rays |-> clear(rj[w].rays) \o NewRays(b, cfg.spp),
                      pi |-> Len(paths), bucket |-> b,
                      contrib |-> <<>>, before |-> image]]
    /\ workers' = [workers EXCEPT ![w].pc = "trace"]
    /\ UNCHANGED <<image, shared, rhist, notBucket>>

NextPathsMut(paths, pi) ==
    [k \in 1..Len(paths) |-> [paths[k] EXCEPT !.round = @ + 1]]
\* renderer.rs 283-285: the closure of partition_pair on each of the first pi
\* pairs: path.next is called once, and writes the ray when it answers true
NextPaths(paths, pi) ==
    [k \in 1..Len(paths) |->
        IF k <= pi THEN [paths[k] EXCEPT !.round = @ + 1] ELSE paths[k]]
NextRays(paths, rs, pi, go_on) ==
    [k \in 1..Len(rs) |->
        IF k <= pi /\ go_on[k]
        THEN [pixel_co |-> paths[k].pixel_co, si |-> paths[k].si,
              round |-> paths[k].round + 1]
        ELSE rs[k]]

\* renderer.rs 279 and 284: the closure is handed i, the place of the pair in
\* the slices, and gives next isects[i], the intersection trace found for
\* rays[i]; the path keeps what it returned
WithIsects(paths, rs, pi, go_on) ==
    [k \in 1..Len(paths) |->
        IF k <= pi THEN [paths[k] EXCEPT !.got = rs[k], !.alive = go_on[k]]
        ELSE paths[k]]

\* the answers path.next can give to the first pi paths: a path that has
\* gone on MaxRounds times ends
Answers(paths, pi) ==
    {f \in [1..pi -> BOOLEAN] : \A k \in 1..pi : f[k] => paths[k].round < MaxRounds}

\* paths[..pi] and rays[..pi] replaced by their partition
Compacted(whole, part) ==
    [k \in 1..Len(whole) |-> IF k <= Len(part) THEN part[k] ELSE whole[k]]

\* renderer.rs 277-286: one iteration of "while pi > 0": trace, then
\* partition_pair calling path.next on every pair of the first pi
JobTraceWith(w, go_on) ==
    LET j == rj[w]
        np == WithIsects(NextPaths(j.paths, j.pi), j.rays, j.pi, go_on)
        nr == NextRays(j.paths, j.rays, j.pi, go_on)
        pp == partition_pair(Slice(np, 0, j.pi), Slice(nr, 0, j.pi), go_on)
    IN  rj' = [rj EXCEPT ![w].paths = Compacted(np, pp.slc1),
                         ![w].rays = Compacted(nr, pp.slc2),
                         ![w].pi = pp.n]

JobTrace(w) ==
    /\ workers[w].pc = "trace"
    /\ rj[w].pi > 0
    /\ \E go_on \in Answers(rj[w].paths, rj[w].pi) : JobTraceWith(w, go_on)
    /\ UNCHANGED <<workers, image, shared, rhist, notBucket>>

\* renderer.rs 295-300: the image after "for path in &paths"
RECURSIVE Accumulated(_, _, _)
Accumulated(img, paths, k) ==
    IF k > Len(paths) THEN img
    ELSE Accumulated([img EXCEPT ![paths[k].pixel_co] = @ + 1], paths, k + 1)

\* renderer.rs 288-338: "pi" is 0; every path of paths adds to its pixel
\* inside the lease of the bucket, and the progress counter grows
JobAccumulate(w) ==
    /\ workers[w].pc = "trace"
    /\ rj[w].pi = 0
    /\ LET b == workers[w].bucket
       IN  /\ image' = Accumulated(image, rj[w].paths, 1)
           /\ rj' = [rj EXCEPT ![w].contrib =
                        [k \in 1..Len(rj[w].paths) |->
                            [pixel_co |-> rj[w].paths[k].pixel_co,
                             si |-> rj[w].paths[k].si]]]
           /\ shared' = [shared EXCEPT !.pixels_rendered = @ + b.w * b.h]
           /\ rhist' = [rhist EXCEPT !.rendered = @ \cup {b}]
    /\ workers' = [workers EXCEPT ![w].pc = "try_pop", ![w].bucket = NoBucket,
                                  ![w].stats = @ + 1]
    /\ UNCHANGED notBucket

NextJob ==
    \/ ProducerPopulate
    \/ ProducerMarkQueued
    \/ \E w \in DOMAIN workers : WorkerTryPop(w)
    \/ \E w \in DOMAIN workers : WorkerCheckQueued(w)
    \/ \E w \in DOMAIN workers : JobGenerate(w)
    \/ \E w \in DOMAIN workers : JobTrace(w)
    \/ \E w \in DOMAIN workers : JobAccumulate(w)
    \/ \E w \in DOMAIN workers : WorkerCollectStats(w)
    \/ RenderReturn

SpecJob == InitJob /\ [][NextJob]_vars

(***************************************************************************)
(* render and render_job lock by lock (src/src/renderer.rs, 111-193 and    *)
(* 226-353)                                                                *)
(***************************************************************************)

\* nobody holds anything: all_jobs_queued (RwLock), pixels_rendered (Mutex),
\* collective_stats (RwLock) and the leases of Image::get_bucket
NoLocks(thread_count) ==
    [ajq_readers |-> {}, ajq_writer |-> FALSE, pixels_rendered |-> 0,
     collective_stats |-> 0,
     leases |-> [w \in 1..thread_count |-> NoBucket]]

\* bound of the number of buckets when the locks are followed
MaxLockJobs == 2

\* the inputs of render when the locks are followed: one row of pixels cut
\* into buckets of one pixel, every number of threads
LockInputs ==
    {c \in RenderInputs(1..MaxThreads, {NoCrop}) :
        c.img_height = 1 /\ c.bucket_w = 1 /\ JobCount(c) <= MaxLockJobs}

\* renderer.rs 83-130: the workers spawned, nothing locked
InitLocks ==
    /\ IdlePath /\ IdleBVH /\ IdleTrace /\ IdleJob /\ IdleUnits
    /\ InitRenderWith(LockInputs)
    /\ locks = NoLocks(cfg.thread_count)

\* what the steps of this part leave alone
notLocks == <<pathVars, bvhVars, traceVars, jobVars, unitVars>>

\* renderer.rs 183: all_jobs_queued.write(): waits for the readers
ProducerWriteLock ==
    /\ prod.pc = "populate"
    /\ prod.hilbert_d = bucket_n(cfg)
    /\ locks.ajq_readers = {} /\ ~locks.ajq_writer
    /\ locks' = [locks EXCEPT !.ajq_writer = TRUE]
    /\ prod' = [prod EXCEPT !.pc = "mark"]
    /\ UNCHANGED <<cfg, job_queue, all_jobs_queued, workers, image, shared, rhist, notLocks>>

\* renderer.rs 183: the store of true, and the guard dropped
ProducerWriteQueued ==
    /\ prod.pc = "mark"
    /\ all_jobs_queued' = TRUE
    /\ locks' = [locks EXCEPT !.ajq_writer = FALSE]
    /\ prod' = [prod EXCEPT !.pc = "join"]
    /\ UNCHANGED <<cfg, job_queue, workers, image, shared, rhist, notLocks>>

\* renderer.rs 233-235: try_pop takes no lock
LockedTryPop(w) == WorkerTryPop(w) /\ UNCHANGED locks

\* renderer.rs 157-180: the producer pushes without a lock
LockedPopulate == ProducerPopulate /\ UNCHANGED locks

\* renderer.rs 236: all_jobs_queued.read(): waits for the writer
WorkerReadLock(w) ==
    /\ workers[w].pc = "check"
    /\ ~locks.ajq_writer
    /\ locks' = [locks EXCEPT !.ajq_readers = @ \cup {w}]
    /\ workers' = [workers EXCEPT ![w].pc = "checking"]
    /\ UNCHANGED <<cfg, prod, job_queue, all_jobs_queued, image, shared, rhist, notLocks>>

\* renderer.rs 236-238: the flag read, and the guard dropped
WorkerReadQueued(w) ==
    /\ workers[w].pc = "checking"
    /\ workers' = IF all_jobs_queued
                  THEN [workers EXCEPT ![w].pc = "collect",
                                       ![w].exit_queue_len = Len(job_queue)]
                  ELSE [workers EXCEPT ![w].pc = "try_pop"]
    /\ locks' = [locks EXCEPT !.ajq_readers = @ \ {w}]
    /\ UNCHANGED <<cfg, prod, job_queue, all_jobs_queued, image, shared, rhist, notLocks>>

\* renderer.rs 241-286: the paths of the bucket generated and traced until
\* pi is 0: nothing shared is touched
WorkerTraceBucket(w) ==
    /\ workers[w].pc = "render"
    /\ workers' = [workers EXCEPT ![w].pc = "lease"]
    /\ UNCHANGED <<cfg, prod, job_queue, all_jobs_queued, image, shared, rhist, locks, notLocks>>

\* do two buckets share a pixel
Overlap(b1, b2) == JobPixels(b1) \cap JobPixels(b2) # {}

\* renderer.rs 290-300: Image::get_bucket, which is given no lease that
\* overlaps one that is out, and the paths added to the bucket's pixels
WorkerGetBucket(w) ==
    /\ workers[w].pc = "lease"
    /\ \A v \in DOMAIN workers : ~Overlap(locks.leases[v], workers[w].bucket)
    /\ locks' = [locks EXCEPT !.leases[w] = workers[w].bucket]
    /\ image' = [px \in DOMAIN image |->
                    IF px \in JobPixels(workers[w].bucket)
                    THEN image[px] + cfg.spp ELSE image[px]]
    /\ workers' = [workers EXCEPT ![w].pc = "progress"]
    /\ UNCHANGED <<cfg, prod, job_queue, all_jobs_queued, shared, rhist, notLocks>>

\* renderer.rs 312: pixels_rendered.lock()
WorkerProgressLock(w) ==
    /\ workers[w].pc = "progress"
    /\ locks.pixels_rendered = 0
    /\ locks' = [locks EXCEPT !.pixels_rendered = w]
    /\ workers' = [workers EXCEPT ![w].pc = "progress_locked"]
    /\ UNCHANGED <<cfg, prod, job_queue, all_jobs_queued, image, shared, rhist, notLocks>>

unlockMut(l, w) == [l EXCEPT !.leases[w] = NoBucket]
\* renderer.rs 338: the end of the block drops the guard of pixels_rendered
\* and the lease of the bucket
unlock(l, w) == [l EXCEPT !.pixels_rendered = 0, !.leases[w] = NoBucket]

\* renderer.rs 313-338: the progress counter advanced and printed, then the
\* guard and the lease dropped
WorkerProgressUnlock(w) ==
    /\ workers[w].pc = "progress_locked"
    /\ LET b == workers[w].bucket
       IN  /\ shared' = [shared EXCEPT !.pixels_rendered = @ + b.w * b.h]
           /\ rhist' = [rhist EXCEPT !.rendered = @ \cup {b}]
    /\ locks' = unlock(locks, w)
    /\ workers' = [workers EXCEPT ![w].pc = "try_pop", ![w].bucket = NoBucket,
                                  ![w].stats = @ + 1]
    /\ UNCHANGED <<cfg, prod, job_queue, all_jobs_queued, image, notLocks>>

\* renderer.rs 351: collected_stats.write()
WorkerStatsLock(w) ==
    /\ workers[w].pc = "collect"
    /\ locks.collective_stats = 0
    /\ locks' = [locks EXCEPT !.collective_stats = w]
    /\ workers' = [workers EXCEPT ![w].pc = "collecting"]
    /\ UNCHANGED <<cfg, prod, job_queue, all_jobs_queued, image, shared, rhist, notLocks>>

collectMut(total, stats) == total
\* RenderStats::collect (renderer.rs 64-73): every field of the other stats
\* added to the same field
collect(total, stats) == total + stats

\* renderer.rs 351-352: collect(stats), and the guard dropped when
\* render_job returns
WorkerStatsUnlock(w) ==
    /\ workers[w].pc = "collecting"
    /\ shared' = [shared EXCEPT !.collective_stats = collect(@, workers[w].stats)]
    /\ locks' = [locks EXCEPT !.collective_stats = 0]
    /\ workers' = [workers EXCEPT ![w].pc = "done"]
    /\ UNCHANGED <<cfg, prod, job_queue, all_jobs_queued, image, rhist, notLocks>>

\* renderer.rs 184-192: the scope has joined the workers; collective_stats
\* is read and returned
LockedReturn == RenderReturn /\ locks.collective_stats = 0 /\ UNCHANGED locks

\* the steps of the thread of worker w
Worker(w) ==
    /\ w \in DOMAIN workers
    /\ \/ LockedTryPop(w)
       \/ WorkerReadLock(w)
       \/ WorkerReadQueued(w)
       \/ WorkerTraceBucket(w)
       \/ WorkerGetBucket(w)
       \/ WorkerProgressLock(w)
       \/ WorkerProgressUnlock(w)
       \/ WorkerStatsLock(w)
       \/ WorkerStatsUnlock(w)

NextLocks ==
    \/ LockedPopulate
    \/ ProducerWriteLock
    \/ ProducerWriteQueued
    \/ LockedReturn
    \/ \E w \in DOMAIN workers : LockedTryPop(w)
    \/ \E w \in DOMAIN workers : WorkerReadLock(w)
    \/ \E w \in DOMAIN workers : WorkerReadQueued(w)
    \/ \E w \in DOMAIN workers : WorkerTraceBucket(w)
    \/ \E w \in DOMAIN workers : WorkerGetBucket(w)
    \/ \E w \in DOMAIN workers : WorkerProgressLock(w)
    \/ \E w \in DOMAIN workers : WorkerProgressUnlock(w)
    \/ \E w \in DOMAIN workers : WorkerStatsLock(w)
    \/ \E w \in DOMAIN workers : WorkerStatsUnlock(w)

SpecLocks == InitLocks /\ [][NextLocks]_vars

\* every worker thread that can take a step eventually takes one, and so
\* does the thread of render once the scope can end: the threads are
\* scheduled by the operating system.  Nothing is assumed about a thread
\* that waits for a lock somebody else keeps taking.
SpecFair ==
    /\ InitLocks /\ [][NextLocks]_vars
    /\ WF_vars(LockedReturn)
    /\ \A w \in 1..MaxThreads : WF_vars(Worker(w))

(***************************************************************************)
(* parse_surface_shader (src/src/parse/psy_surface_shader.rs).             *)
(*                                                                         *)
(* A text is the sequence of its lexemes: " " is a run of whitespace, a    *)
(* digit is a number literal, anything else is a word.  A DataTree node    *)
(* is its byte offset and its children; a child is a leaf (type name,      *)
(* contents, byte offset) or an internal node (type name, byte offset).    *)
(***************************************************************************)

\* the number literals of the texts and the f32 each one reads as
F32Of == ("1" :> 1) @@ ("2" :> 2) @@ ("3" :> 3)

\* str::trim, from the front
TrimStart(text) ==
    IF text # <<>> /\ Head(text) = " "
    THEN SubSeq(text, CHOOSE i \in 1..(Len(text) + 1) :
                        /\ \A j \in 1..(i - 1) : text[j] = " "
                        /\ (i <= Len(text) => text[i] # " "),
                Len(text))
    ELSE text

\* str::trim, from the back
TrimEnd(text) ==
    SubSeq(text, 1, CHOOSE i \in 0..Len(text) :
                        /\ \A j \in (i + 1)..Len(text) : text[j] = " "
                        /\ (i >= 1 => text[i] # " "))

trim(text) == TrimEnd(TrimStart(text))

\* basics::ws_f32: whitespace, a float, whitespace
ws_f32(input) ==
    LET a == TrimStart(input) IN
    IF a # <<>> /\ Head(a) \in DOMAIN F32Of
    THEN [done |-> TRUE, rest |-> TrimStart(Tail(a)), val |-> F32Of[Head(a)]]
    ELSE [done |-> FALSE, rest |-> input, val |-> 0]

\* closure!(tuple!(ws_f32, ws_f32, ws_f32))
ws_f32x3(input) ==
    LET a == ws_f32(input)
        b == ws_f32(a.rest)
        c == ws_f32(b.rest) IN
    IF a.done /\ b.done /\ c.done
    THEN [done |-> TRUE, rest |-> c.rest, val |-> <<a.val, b.val, c.val>>]
    ELSE [done |-> FALSE, rest |-> input, val |-> <<>>]

\* XYZ::from_tuple(rec709_e_to_xyz(color)), kept as a term
rec709_e_to_xyz(color) == [xyz_of |-> color]

\* DataTree::iter_leaf_children_with_type
iter_leaf_children_with_type(tree, type_name) ==
    SelectSeq(tree.children, LAMBDA c : c.leaf /\ c.type_name = type_name)

MissingNode(byte_offset, msg) == [err |-> "MissingNode", byte_offset |-> byte_offset, msg |-> msg]

UnknownError(byte_offset) == [err |-> "UnknownError", byte_offset |-> byte_offset, msg |-> ""]

Err(e) == [tag |-> "Err", val |-> e]

Ok(v) == [tag |-> "Ok", val |-> v]

\* unimplemented!()
Panicked == [tag |-> "panic", val |-> "not yet implemented"]

\* psy_surface_shader.rs 39-58, 63-82, 88-107: the Color field
ParseColor(tree, msg) ==
    LET found == iter_leaf_children_with_type(tree, "Color") IN
    IF found # <<>>
    THEN LET r == ws_f32x3(found[1].contents) IN
         IF r.done THEN Ok(rec709_e_to_xyz(r.val))
         ELSE Err(UnknownError(found[1].byte_offset))
    ELSE Err(MissingNode(tree.byte_offset, msg))

\* psy_surface_shader.rs 110-123, 126-139, 142-155: a field of one float
ParseFloat(tree, type_name, msg) ==
    LET found == iter_leaf_children_with_type(tree, type_name) IN
    IF found # <<>>
    THEN LET r == ws_f32(found[1].contents) IN
         IF r.done THEN Ok(r.val)
         ELSE Err(UnknownError(found[1].byte_offset))
    ELSE Err(MissingNode(tree.byte_offset, msg))

\* psy_surface_shader.rs 38-61
ParseEmit(tree) ==
    LET color == ParseColor(tree, "Expected a Color field in Emit SurfaceShader.") IN
    IF color.tag = "Err" THEN color
    ELSE Ok([shader |-> "Emit", color |-> color.val])

\* psy_surface_shader.rs 62-85
ParseLambert(tree) ==
    LET color == ParseColor(tree, "Expected a Color field in Lambert SurfaceShader.") IN
    IF color.tag = "Err" THEN color
    ELSE Ok([shader |-> "Lambert", color |-> color.val])

\* psy_surface_shader.rs 86-163: the early returns in the order of the code
ParseGTR(tree) ==
    LET color == ParseColor(tree, "Expected a Color field in GTR SurfaceShader.")
        roughness == ParseFloat(tree, "Roughness", "Expected a Roughness field in GTR SurfaceShader.")
        tail_shape == ParseFloat(tree, "TailShape", "Expected a TailShape field in GTR SurfaceShader.")
        fresnel == ParseFloat(tree, "Fresnel", "Expected a Fresnel field in GTR SurfaceShader.") IN
    IF color.tag = "Err" THEN color
    ELSE IF roughness.tag = "Err" THEN roughness
    ELSE IF tail_shape.tag = "Err" THEN tail_shape
    ELSE IF fresnel.tag = "Err" THEN fresnel
    ELSE Ok([shader |-> "GTR", color |-> color.val, roughness |-> roughness.val,
             tail_shape |-> tail_shape.val, fresnel |-> fresnel.val])

\* psy_surface_shader.rs 24-168
parse_surface_shader(tree) ==
    LET types == iter_leaf_children_with_type(tree, "Type") IN
    IF types = <<>>
    THEN Err(MissingNode(tree.byte_offset, "Expected a Type field in SurfaceShader."))
    ELSE LET type_name == trim(types[1].contents) IN
         IF type_name = <<"Emit">> THEN ParseEmit(tree)
         ELSE IF type_name = <<"Lambert">> THEN ParseLambert(tree)
         ELSE IF type_name = <<"GTR">> THEN ParseGTR(tree)
         ELSE Panicked

\* the texts a Type leaf may hold
TypeTexts ==
    {<<"Emit">>, <<"Lambert">>, <<"GTR">>, <<" ", "GTR", " ">>, <<"Mirror">>, <<>>, <<"GTR", " ", "x">>}

\* the texts a Color leaf may hold
ColorTexts ==
    {<<"1", " ", "2", " ", "3">>, <<" ", "3", " ", "1", " ", "2", " ">>,
     <<"1", " ", "2">>, <<"1", " ", "x", " ", "3">>, <<>>}

\* the texts a leaf of one float may hold
FloatTexts == {<<"2">>, <<" ", "3", " ">>, <<"x">>, <<" ">>}

\* a slot of the node: no child of that type, a leaf, or an internal node
Slot(type_name, texts) ==
    {<<>>} \cup {<<[leaf |-> TRUE, type_name |-> type_name, contents |-> t]>> : t \in texts}

InternalChild(type_name) == <<[leaf |-> FALSE, type_name |-> type_name, contents |-> <<>>]>>

\* the children get the byte offsets of their places, after the node's own
WithOffsets(byte_offset, children) ==
    [byte_offset |-> byte_offset,
     children |-> [i \in 1..Len(children) |->
                     [leaf |-> children[i].leaf, type_name |-> children[i].type_name,
                      contents |-> children[i].contents, byte_offset |-> byte_offset + i]]]

\* the SurfaceShader nodes given to the parser
ShaderTrees ==
    {WithOffsets(7, ty \o co \o ro \o ta \o fr) :
        ty \in Slot("Type", TypeTexts),
        co \in Slot("Color", ColorTexts) \cup {InternalChild("Color")},
        ro \in Slot("Roughness", FloatTexts),
        ta \in Slot("TailShape", FloatTexts),
        fr \in Slot("Fresnel", FloatTexts)}

\* nothing has come back yet
NoResult == [tag |-> "none", val |-> <<>>]

InitShader ==
    /\ IdlePath /\ IdleRender /\ IdleBVH /\ IdleTrace /\ IdleJob /\ IdleLocks
    /\ f4 = <<>> /\ main = <<>>
    /\ shader \in {[tree |-> t, called |-> FALSE, result |-> NoResult] : t \in ShaderTrees}

notShader == <<pathVars, renderVars, bvhVars, traceVars, jobVars, lockVars, f4, main>>

\* a call of parse_surface_shader on the node
ParseSurfaceShader ==
    /\ ~shader.called
    /\ shader' = [shader EXCEPT !.called = TRUE, !.result = parse_surface_shader(shader.tree)]
    /\ UNCHANGED notShader

NextShader == ParseSurfaceShader

SpecShader == InitShader /\ [][NextShader]_vars

(***************************************************************************)
(* Float4 (src/sub_crates/float4/src/lib.rs), the build without simd_perf. *)
(*                                                                         *)
(* data is the array [f32; 4], indexed from 0; an f32 is a small integer.  *)
(***************************************************************************)

\* the lane indices handed to set_n and get_n go from 0 to MaxLane
MaxLane == 4

\* the f32 values go from 0 to MaxF32
MaxF32 == 2

\* lib.rs 34-36
Float4New(a, b, c, d) == (0 :> a) @@ (1 :> b) @@ (2 :> c) @@ (3 :> d)

\* lib.rs 246-250: *self.data.get_unchecked_mut(0) = n
set_0(data, v) == [data EXCEPT ![0] = v]

\* lib.rs 260-264
set_1(data, v) == [data EXCEPT ![1] = v]

\* lib.rs 274-278
set_2(data, v) == [data EXCEPT ![2] = v]

\* lib.rs 288-292
set_3(data, v) == [data EXCEPT ![3] = v]

\* lib.rs 313-315: *self.data.get_unchecked(0)
get_0(data) == data[0]

\* lib.rs 325-327
get_1(data) == data[1]

\* lib.rs 337-339
get_2(data) == data[2]

\* lib.rs 349-351
get_3(data) == data[3]

\* set_n with the arms of lanes 2 and 3 exchanged
set_nMut(data, n, v) ==
    CASE n = 0 -> [data |-> set_0(data, v), panic |-> FALSE]
      [] n = 1 -> [data |-> set_1(data, v), panic |-> FALSE]
      [] n = 2 -> [data |-> set_3(data, v), panic |-> FALSE]
      [] n = 3 -> [data |-> set_2(data, v), panic |-> FALSE]
      [] OTHER -> [data |-> data, panic |-> TRUE]

\* lib.rs 226-236
set_n(data, n, v) ==
    CASE n = 0 -> [data |-> set_0(data, v), panic |-> FALSE]
      [] n = 1 -> [data |-> set_1(data, v), panic |-> FALSE]
      [] n = 2 -> [data |-> set_2(data, v), panic |-> FALSE]
      [] n = 3 -> [data |-> set_3(data, v), panic |-> FALSE]
      [] OTHER -> [data |-> data, panic |-> TRUE]

\* lib.rs 294-304; ret is read only when the call has not panicked
get_n(data, n) ==
    CASE n = 0 -> [ret |-> get_0(data), panic |-> FALSE]
      [] n = 1 -> [ret |-> get_1(data), panic |-> FALSE]
      [] n = 2 -> [ret |-> get_2(data), panic |-> FALSE]
      [] n = 3 -> [ret |-> get_3(data), panic |-> FALSE]
      [] OTHER -> [ret |-> 0, panic |-> TRUE]

\* no call yet
NoF4Call == [op |-> "new", n |-> 0, v |-> 0, ret |-> 0, panic |-> FALSE]

InitFloat4 ==
    /\ IdlePath /\ IdleRender /\ IdleBVH /\ IdleTrace /\ IdleJob /\ IdleLocks
    /\ shader = <<>> /\ main = <<>>
    /\ \E a \in 0..MaxF32, b \in 0..MaxF32, c \in 0..MaxF32, d \in 0..MaxF32 :
        f4 = [data |-> Float4New(a, b, c, d), before |-> Float4New(a, b, c, d), last |-> NoF4Call]

notFloat4 == <<pathVars, renderVars, bvhVars, traceVars, jobVars, lockVars, shader, main>>

\* a call f.set_n(n, v); a panic ends the thread that holds f
Float4SetN ==
    /\ ~f4.last.panic
    /\ \E n \in 0..MaxLane, v \in 0..MaxF32 :
        LET r == set_n(f4.data, n, v) IN
        f4' = [data |-> r.data, before |-> f4.data,
               last |-> [op |-> "set_n", n |-> n, v |-> v, ret |-> 0, panic |-> r.panic]]
    /\ UNCHANGED notFloat4

\* a call f.get_n(n)
Float4GetN ==
    /\ ~f4.last.panic
    /\ \E n \in 0..MaxLane :
        LET r == get_n(f4.data, n) IN
        f4' = [data |-> f4.data, before |-> f4.data,
               last |-> [op |-> "get_n", n |-> n, v |-> 0, ret |-> r.ret, panic |-> r.panic]]
    /\ UNCHANGED notFloat4

NextFloat4 == Float4SetN \/ Float4GetN

SpecFloat4 == InitFloat4 /\ [][NextFloat4]_vars

(***************************************************************************)
(* The --use_stdin loop of main (src/src/main.rs, 219-247)                 *)
(***************************************************************************)

\* bounds of the streams: the bytes before and after the token, and the
\* reads of 0 bytes that are counted
MaxPad == 2
MaxZeroReads == 2

\* main.rs 224: the length of buf
BufLen == 4096

\* main.rs 240: "__PSY_EOF__"
Token == <<"_", "_", "P", "S", "Y", "_", "E", "O", "F", "_", "_">>

\* the sequences of at most n bytes, each "_" or "x"
RECURSIVE Pads(_)
Pads(n) ==
    IF n = 0 THEN {<<>>}
    ELSE Pads(n - 1) \cup {Append(s, b) : s \in {t \in Pads(n - 1) : Len(t) = n - 1},
                                          b \in {"_", "x"}}

\* the streams on stdin: with the token once or twice, or with a part of it
\* only, between bytes that may themselves begin or end like the token
Streams ==
    {pre \o Token \o post : pre \in Pads(MaxPad), post \in Pads(MaxPad) \cup {Token}}
        \cup {pre \o SubSeq(Token, 1, k) \o post :
                 pre \in Pads(MaxPad), k \in {0, 2, 10}, post \in Pads(MaxPad)}

\* is s[i..i + len(t)) equal to t (i from 0)
MatchesAt(s, t, i) == i + Len(t) <= Len(s) /\ SubSeq(s, i + 1, i + Len(t)) = t

\* find_substring: the first place of t in s, or -1
FindSubstring(s, t) ==
    IF \E i \in 0..Len(s) : MatchesAt(s, t, i)
    THEN CHOOSE i \in 0..Len(s) :
             MatchesAt(s, t, i) /\ \A i2 \in 0..(i - 1) : ~MatchesAt(s, t, i2)
    ELSE -1

\* nom's take_until!: Incomplete when the input is shorter than the token,
\* Error when the token is not in it, else Done with what is before the
\* token as the output and the rest, token first, as the remaining input
take_until(s, t) ==
    IF Len(t) > Len(s) THEN [kind |-> "Incomplete", remaining |-> <<>>]
    ELSE IF FindSubstring(s, t) = -1 THEN [kind |-> "Error", remaining |-> <<>>]
    ELSE [kind |-> "Done", remaining |-> SubSeq(s, FindSubstring(s, t) + 1, Len(s))]

\* Read::read on stdin with a buffer of len bytes: at least one byte and at
\* most len while bytes are left, Ok(0) at the end of the stream
ReadCounts(left, len) == IF left = 0 THEN {0} ELSE 1..Min(left, len)

WindowStartMut(len) == len
\* main.rs 229-233: where the search begins
WindowStart(len) == IF len < 11 THEN 0 ELSE len - 11

\* main.rs 222-224: before the first read
InitStdin ==
    /\ IdlePath /\ IdleRender /\ IdleBVH /\ IdleTrace /\ IdleJob /\ IdleLocks
    /\ shader = <<>> /\ f4 = <<>>
    /\ \E s \in Streams :
        main = [stream |-> s, pos |-> 0, input |-> <<>>, pc |-> "loop",
                count |-> 0, zero_reads |-> 0]

notStdin == <<pathVars, renderVars, bvhVars, traceVars, jobVars, lockVars, shader, f4>>

\* main.rs 225-246: one iteration of the loop.  read gives Ok(count) also at
\* the end of the stream, so that expect does not fail there.  zero_reads
\* is not a variable of main: it counts the reads of 0 bytes up to
\* MaxZeroReads.
StdinRead ==
    /\ main.pc = "loop"
    /\ \E count \in ReadCounts(Len(main.stream) - main.pos, BufLen) :
        LET start == WindowStart(Len(main.input))
            end == Len(main.input) + count
            input == main.input \o SubSeq(main.stream, main.pos + 1, main.pos + count)
            found == take_until(SubSeq(input, start + 1, end), Token)
            done == found.kind = "Done"
            trunc_len == Len(input) - Len(found.remaining)
        IN  main' = [main EXCEPT
                        !.pos = @ + count,
                        !.input = IF done THEN SubSeq(input, 1, trunc_len) ELSE input,
                        !.pc = IF done THEN "done" ELSE "loop",
                        !.count = count,
                        !.zero_reads = IF count = 0 THEN Min(@ + 1, MaxZeroReads) ELSE @]
    /\ UNCHANGED notStdin

NextStdin == StdinRead

SpecStdin == InitStdin /\ [][NextStdin]_vars

\* the loop goes on as long as it can
SpecStdinFair == SpecStdin /\ WF_vars(StdinRead)

(* Claims about LightPath *)

\* C5: a path starts in CameraRay; after a call of next that left another
\* event the event is never CameraRay again and a path that goes on is never
\* in CameraRay; a call made in ShadowRay ends the path or leaves BounceRay;
\* when next returns true the event is ShadowRay exactly when the ray it
\* wrote is a shadow ray, and BounceRay otherwise.
C5_EventMachine ==
    /\ hist.calls = 0 => path.event = "CameraRay"
    /\ (hist.calls > 0 /\ hist.last.evIn # "CameraRay") => path.event # "CameraRay"
    /\ (hist.calls > 0 /\ hist.last.ret) => path.event # "CameraRay"
    /\ (hist.calls > 0 /\ hist.last.evIn = "ShadowRay")
           => (~hist.last.ret \/ path.event = "BounceRay")
    /\ (hist.calls > 0 /\ hist.last.ret)
           => /\ (path.event = "ShadowRay") <=> ray.is_shadow
              /\ (path.event # "ShadowRay") => path.event = "BounceRay"

\* C5 witness: a shadow result has been followed by a bounce ray
C5_Witness ==
    /\ hist.calls >= 2 /\ hist.last.evIn = "ShadowRay" /\ hist.last.ret
    /\ path.event = "BounceRay" /\ ~ray.is_shadow

\* C6: after a surface hit whose BSDF sample was not usable no bounce ray
\* follows: with no shadow ray the hit's call returns false; with one, the
\* call that processes the shadow result returns false and leaves
\* light_attenuation as it was.
C6_NoBounceAfterUnusableSample ==
    /\ (hist.calls > 0 /\ hist.last.evIn # "ShadowRay"
        /\ hist.last.isect = "HitSurface"
        /\ hist.hit.sampled /\ ~hist.hit.usable /\ ~hist.hit.found)
           => ~hist.last.ret
    /\ (hist.calls > 0 /\ hist.last.evIn = "ShadowRay"
        /\ hist.hit.sampled /\ ~hist.hit.usable)
           => /\ ~hist.last.ret
              /\ path.light_attenuation = hist.last.before.light_attenuation

\* C7: a call in ShadowRay adds exactly pending_color_addition to color on a
\* Miss and leaves color alone otherwise; a call in CameraRay or BounceRay
\* adds at most one amount of light, which is not a pending light sample.
C7_PendingCommittedIffMiss ==
    hist.calls > 0 =>
        LET b == hist.last.before
        IN  /\ (hist.last.evIn = "ShadowRay" /\ hist.last.isect = "Miss")
                => path.color = Append(b.color, b.pending_color_addition)
            /\ (hist.last.evIn = "ShadowRay" /\ hist.last.isect # "Miss")
                => path.color = b.color
            /\ (hist.last.evIn # "ShadowRay")
                => \/ path.color = b.color
                   \/ /\ Len(path.color) = Len(b.color) + 1
                      /\ SubSeq(path.color, 1, Len(b.color)) = b.color
                      /\ path.color[Len(path.color)].kind
                             \in {"emit", "emit_mis", "background"}

\* C7 witness: a shadow ray missed and its pending light was committed
C7_Witness ==
    /\ hist.calls > 0 /\ hist.last.evIn = "ShadowRay" /\ hist.last.isect = "Miss"
    /\ Len(path.color) > 0 /\ path.color[Len(path.color)].kind = "light"

\* C8: bounce_count is at most 2, a path emits at most 2 bounce rays, and
\* next is called at most 6 times on a path.
C8_BoundedPath ==
    /\ path.bounce_count <= 2
    /\ hist.bounces <= 2
    /\ hist.calls <= 6

\* C8 witness: a path that ended at its sixth call, after two bounces
C8_Witness ==
    hist.calls = 6 /\ ~hist.alive /\ hist.bounces = 2 /\ path.bounce_count = 2

\* the number of "*=" among the operations applied to light_attenuation
MulCount(att) == Cardinality({i \in 1..Len(att) : att[i].op = "mul"})

\* the latest surface hit prepared both a shadow ray and a bounce ray
PreparedBoth == hist.hit.found /\ hist.hit.sampled /\ hist.hit.usable

\* the latest call was the one of the hit itself
AtHit == hist.calls > 0 /\ hist.last.evIn # "ShadowRay" /\ hist.last.isect = "HitSurface"

\* the latest call was given the result of a shadow ray
AtShadowResult == hist.calls > 0 /\ hist.last.evIn = "ShadowRay"

\* C28: when a hit prepares both a shadow ray and a bounce ray, the call of
\* the hit returns the shadow ray, keeps the bounce ray queued and does not
\* multiply light_attenuation; the very next call returns the queued bounce
\* ray and multiplies light_attenuation by the hit's next_attenuation_fac,
\* whatever the shadow ray's result.  Every call multiplies
\* light_attenuation once when it emits a bounce ray and not at all
\* otherwise, so that the multiplications are as many as the bounce rays
\* emitted, and the pending_color_addition of a hit does not contain the
\* hit's own bounce factor.
C28_ShadowThenBounce ==
    /\ (AtHit /\ PreparedBoth) =>
        /\ hist.last.ret
        /\ ray = [is_shadow |-> TRUE, from |-> hist.hits]
        /\ path.next_bounce_ray = [is_shadow |-> FALSE, from |-> hist.hits]
        /\ path.next_attenuation_fac = Filter(hist.hits)
        /\ MulCount(path.light_attenuation)
               = MulCount(hist.last.before.light_attenuation)
    /\ (AtShadowResult /\ PreparedBoth) =>
        /\ hist.last.ret
        /\ ray = hist.last.before.next_bounce_ray
        /\ ray = [is_shadow |-> FALSE, from |-> hist.hits]
        /\ path.light_attenuation
               = Append(hist.last.before.light_attenuation, Mul(Filter(hist.hits)))
    /\ hist.calls > 0 =>
        LET emitted == hist.last.ret /\ ~ray.is_shadow
            b == hist.last.before
        IN  /\ emitted =>
                /\ MulCount(path.light_attenuation) = MulCount(b.light_attenuation) + 1
                /\ path.light_attenuation[Len(path.light_attenuation)]
                       = Mul(b.next_attenuation_fac)
                          \/ (hist.last.evIn # "ShadowRay"
                              /\ path.light_attenuation[Len(path.light_attenuation)]
                                     = Mul(path.next_attenuation_fac))
            /\ ~emitted =>
                MulCount(path.light_attenuation) = MulCount(b.light_attenuation)
    /\ MulCount(path.light_attenuation) = hist.bounces
    /\ path.pending_color_addition # Zero =>
        \A i \in 1..Len(path.pending_color_addition.att) :
            path.pending_color_addition.att[i]
                # Mul(Filter(path.pending_color_addition.hit))

\* C28 witness: the second hit prepared a shadow ray and a bounce ray, the
\* shadow ray was occluded, and the call that got its result returned the
\* bounce ray of the second hit
C28_Witness ==
    /\ AtShadowResult /\ PreparedBoth
    /\ hist.hits = 2
    /\ hist.last.isect # "Miss"
    /\ hist.last.ret
    /\ ray = [is_shadow |-> FALSE, from |-> 2]
    /\ path.pending_color_addition.hit = 2

----------------------------------------------------------------------------
\* the numbers a .. b - 1 in increasing order
Upto(a, b) == [i \in 1..(b - a) |-> a + (i - 1)]

\* the draws a call of next makes: four at a hit of a surface that does not
\* emit, when the call is the result of a camera or a bounce ray, then two
\* more when bounce_count was below 2
DrawsOf(call) ==
    IF call.evIn \in {"CameraRay", "BounceRay"} /\ call.isect = "HitSurface"
    THEN IF call.before.bounce_count < 2 THEN 6 ELSE 4
    ELSE 0

\* C19: a new path has drawn the dimensions 0 to 5 (lens 0 and 1, time 2,
\* wavelength 3, filter 4 and 5) and its counter is 6; every later draw takes
\* the counter's value and leaves it one higher, so the dimensions drawn
\* after the creation are 6, 7, ... up to the counter and none is drawn
\* twice; a call of next at a hit of a non-emitting surface by a camera or
\* bounce ray draws 4 dimensions, then 2 more exactly when bounce_count was
\* below 2, and every other call (miss, emitting hit, shadow result) none.
C19_DimensionsInOrder ==
    /\ hist.calls = 0 => path.dim_offset = 6
    /\ CreationDims = [lens_u |-> 0, lens_v |-> 1, time |-> 2, wavelength |-> 3,
                       filter_x |-> 4, filter_y |-> 5]
    /\ path.drawn = CreationDraws \o Upto(6, path.dim_offset)
    /\ \A i, j \in 1..Len(path.drawn) : i < j => path.drawn[i] # path.drawn[j]
    /\ hist.calls > 0 =>
           /\ path.dim_offset = hist.last.before.dim_offset + DrawsOf(hist.last)
           /\ path.drawn = hist.last.before.drawn
                  \o Upto(hist.last.before.dim_offset,
                          hist.last.before.dim_offset + DrawsOf(hist.last))

\* C19 witness: a path whose third hit, at bounce_count 2, drew four
\* dimensions after its first two hits had drawn six each
C19_Witness ==
    /\ hist.calls > 0
    /\ hist.last.before.bounce_count = 2
    /\ hist.last.before.dim_offset = 18
    /\ path.dim_offset = 22

(* Claims about render and render_job *)

\* no element occurs twice in the sequence
NoDuplicates(q) == \A i, j \in 1..Len(q) : i # j => q[i] # q[j]

\* the elements of a sequence
Range(q) == {q[i] : i \in 1..Len(q)}

\* the inclusive rectangle [x1, x2] x [y1, y2] of the crop, its corners
\* clamped to the image; the whole image when there is no crop
CropRectangle ==
    IF cfg.crop = NoCrop
    THEN (0..(cfg.img_width - 1)) \X (0..(cfg.img_height - 1))
    ELSE (Min(cfg.crop[1], cfg.img_width - 1) .. Min(cfg.crop[3], cfg.img_width - 1))
         \X (Min(cfg.crop[2], cfg.img_height - 1) .. Min(cfg.crop[4], cfg.img_height - 1))

\* C1: a worker leaves its render loop only with the job queue drained, and
\* when render has returned every pushed job has been popped and rendered
\* and every pixel of the render region has been rendered.
C1_NoJobLost ==
    /\ \A w \in DOMAIN workers :
           workers[w].pc \in {"collect", "done"} => workers[w].exit_queue_len = 0
    /\ prod.pc = "returned"
           => /\ job_queue = <<>>
              /\ rhist.rendered = Range(rhist.pushed)
              /\ \A px \in CropRectangle : image[px] > 0

\* C2: no tile is pushed twice, every pushed job is still queued or has been
\* popped exactly once, no job is rendered twice, and no pixel has received
\* more than the spp contributions of one bucket iteration.
C2_NoBucketTwice ==
    /\ NoDuplicates(rhist.pushed)
    /\ rhist.popped \o job_queue = rhist.pushed
    /\ NoDuplicates(rhist.popped)
    /\ rhist.rendered \subseteq Range(rhist.popped)
    /\ \A v, w \in DOMAIN workers :
           (v # w /\ workers[v].pc = "render" /\ workers[w].pc = "render")
               => workers[v].bucket # workers[w].bucket
    /\ \A px \in DOMAIN image : image[px] <= cfg.spp

\* C2 witness: render has returned after two workers each rendered a bucket
C2_Witness ==
    /\ prod.pc = "returned"
    /\ \E v, w \in DOMAIN workers :
           v # w /\ workers[v].stats >= 1 /\ workers[w].stats >= 1

\* C3: the pushed jobs have w >= 1 and h >= 1, lie inside the crop rectangle
\* and are pairwise disjoint; once the producer has gone through the grid
\* their union is the crop rectangle.
C3_JobsTileCropRectangle ==
    /\ \A i \in 1..Len(rhist.pushed) :
           /\ rhist.pushed[i].w >= 1 /\ rhist.pushed[i].h >= 1
           /\ JobPixels(rhist.pushed[i]) \subseteq CropRectangle
    /\ \A i, j \in 1..Len(rhist.pushed) :
           i # j => JobPixels(rhist.pushed[i]) \cap JobPixels(rhist.pushed[j]) = {}
    /\ prod.pc # "populate"
           => UNION {JobPixels(rhist.pushed[i]) : i \in 1..Len(rhist.pushed)}
                  = CropRectangle

\* C3 witness: a crop reaching beyond the image was clamped and tiled by
\* more than one job
C3_Witness ==
    /\ prod.pc = "returned"
    /\ cfg.crop # NoCrop
    /\ cfg.crop[3] > cfg.img_width - 1
    /\ cfg.crop[1] > 0
    /\ Len(rhist.pushed) >= 2

(* Claims about the BVH *)

\* the ray of the batch with the id, as traverse has left it
FinalRay(id) == rays[CHOOSE i \in 1..Len(rays) : rays[i].id = id]

\* the objects that the ray hits closer than its max_t at the call
HitsOf(r) == {k \in 1..Len(objects) : HitDistance(objects[k], r) < r.max_t}

\* the smallest distance at which the ray hits one of the objects
ClosestHit(r) == MinOf({HitDistance(objects[k], r) : k \in HitsOf(r)})

\* C4: when traverse has returned, every primitive that a ray of the batch
\* hits closer than its max_t was given to the test callback together with
\* that ray, unless the ray was done or already had a hit at least as close;
\* a ray that hits k >= 1 primitives is left with the intersection of the
\* smallest distance among them, and a ray that hits none is left without.
C4_ClosestHitOnReturn ==
    trav.pc = "returned" =>
        \A id \in 1..Len(bhist.rays) :
            /\ \A k \in HitsOf(bhist.rays[id]) :
                   \/ <<objects[k].id, id>> \in bhist.tested
                   \/ is_done(FinalRay(id))
                   \/ FinalRay(id).max_t <= HitDistance(objects[k], bhist.rays[id])
            /\ (~bhist.rays[id].occlusion /\ HitsOf(bhist.rays[id]) # {}) =>
                   /\ isects[id].hit
                   /\ isects[id].t = ClosestHit(bhist.rays[id])
                   /\ FinalRay(id).max_t = ClosestHit(bhist.rays[id])
                   /\ \E k \in HitsOf(bhist.rays[id]) :
                          /\ objects[k].id = isects[id].obj
                          /\ HitDistance(objects[k], bhist.rays[id]) = isects[id].t
            /\ HitsOf(bhist.rays[id]) = {} =>
                   /\ ~isects[id].hit
                   /\ ~is_done(FinalRay(id))
                   /\ FinalRay(id).max_t = bhist.rays[id].max_t
            /\ (bhist.rays[id].occlusion /\ HitsOf(bhist.rays[id]) # {}) =>
                   is_done(FinalRay(id))

\* C4 witness: traverse has returned from a tree with an internal root, and
\* a ray that hits two primitives at different distances, the second one of
\* the input being the closer, is left with the closer one
C4_Witness ==
    /\ trav.pc = "returned"
    /\ Len(bvh.nodes) > 1
    /\ \E id \in 1..Len(bhist.rays) :
           /\ ~bhist.rays[id].occlusion
           /\ HitsOf(bhist.rays[id]) = {1, 2}
           /\ \E k, l \in 1..2 :
                  /\ objects[k].id = 1 /\ objects[l].id = 2
                  /\ HitDistance(objects[l], bhist.rays[id])
                         < HitDistance(objects[k], bhist.rays[id])
           /\ isects[id].hit
           /\ isects[id].obj = 2

\* C9: the depth recorded by a finished build is at most BVH_MAX_DEPTH
C9_DepthWithinMax ==
    trav.pc = "built" => bvh.depth <= BVH_MAX_DEPTH

\* C10: after from_objects on a non-empty slice of objects whose bounds have
\* the same length, the bounds of the root have that length, and at every
\* time sample and on every axis their least corner is the least of the
\* objects' least corners and their greatest corner the greatest of the
\* objects' greatest corners.
C10_RootBoundsAreUnion ==
    (trav.pc = "built" /\ Len(objects) > 0) =>
        /\ Len(BVHBounds(bvh)) = Len(bounder(bhist.objects[1]))
        /\ \A i \in 1..Len(BVHBounds(bvh)) :
               /\ ~BVHBounds(bvh)[i].empty
               /\ \A a \in 1..3 :
                      /\ \A k \in 1..Len(bhist.objects) :
                             /\ BVHBounds(bvh)[i].min[a] <= bounder(bhist.objects[k])[i].min[a]
                             /\ BVHBounds(bvh)[i].max[a] >= bounder(bhist.objects[k])[i].max[a]
                      /\ \E k \in 1..Len(bhist.objects) :
                             BVHBounds(bvh)[i].min[a] = bounder(bhist.objects[k])[i].min[a]
                      /\ \E k \in 1..Len(bhist.objects) :
                             BVHBounds(bvh)[i].max[a] = bounder(bhist.objects[k])[i].max[a]

\* C10 witness: a build of three objects with two time samples each, not all
\* with the same bounds, that made internal nodes and a leaf of two objects
C10_Witness ==
    /\ trav.pc = "built"
    /\ Len(objects) = 3
    /\ Len(bounder(objects[1])) = 2
    /\ bvh.nodes[1].kind = "Internal"
    /\ \E n \in 1..Len(bvh.nodes) :
           /\ bvh.nodes[n].kind = "Leaf"
           /\ bvh.nodes[n].object_range[2] - bvh.nodes[n].object_range[1] = 2
           /\ bounder(objects[bvh.nodes[n].object_range[1] + 1])
                  # bounder(objects[bvh.nodes[n].object_range[1] + 2])

\* the bounds of node n (numbered from 0) of the BVH
NodeBounds(b, n) ==
    Slice(b.bounds, b.nodes[n + 1].bounds_range[1], b.nodes[n + 1].bounds_range[2])

\* does the box outer contain the box inner
Contains(outer, inner) ==
    inner.empty \/
        /\ ~outer.empty
        /\ \A a \in 1..3 : outer.min[a] <= inner.min[a] /\ inner.max[a] <= outer.max[a]

\* do the bounds outer contain the bounds inner, sample by sample
ContainsAll(outer, inner) ==
    /\ Len(outer) = Len(inner)
    /\ \A i \in 1..Len(outer) : Contains(outer[i], inner[i])

\* C11: in a built BVH the bounds of every internal node contain, at every
\* time sample, the bounds of its first child (the next node) and of its
\* second child (second_child_index); the bounds of every leaf contain the
\* bounds of each object of its range; and the bounds ranges of the nodes
\* are slices of the bounds arena that do not overlap.
C11_BoundsNested ==
    trav.pc = "built" =>
        /\ \A n \in 0..(Len(bvh.nodes) - 1) :
               /\ bvh.nodes[n + 1].bounds_range[1] >= 0
               /\ bvh.nodes[n + 1].bounds_range[1] < bvh.nodes[n + 1].bounds_range[2]
               /\ bvh.nodes[n + 1].bounds_range[2] <= Len(bvh.bounds)
               /\ bvh.nodes[n + 1].kind = "Internal" =>
                      /\ n + 1 < Len(bvh.nodes)
                      /\ bvh.nodes[n + 1].second_child_index > n + 1
                      /\ bvh.nodes[n + 1].second_child_index < Len(bvh.nodes)
                      /\ ContainsAll(NodeBounds(bvh, n), NodeBounds(bvh, n + 1))
                      /\ ContainsAll(NodeBounds(bvh, n),
                                     NodeBounds(bvh, bvh.nodes[n + 1].second_child_index))
               /\ bvh.nodes[n + 1].kind = "Leaf" =>
                      \A k \in (bvh.nodes[n + 1].object_range[1] + 1)
                                   ..bvh.nodes[n + 1].object_range[2] :
                          ContainsAll(NodeBounds(bvh, n), bounder(objects[k]))
        /\ \A n, o \in 0..(Len(bvh.nodes) - 1) :
               n # o =>
                   \/ bvh.nodes[n + 1].bounds_range[2] <= bvh.nodes[o + 1].bounds_range[1]
                   \/ bvh.nodes[o + 1].bounds_range[2] <= bvh.nodes[n + 1].bounds_range[1]

\* C11 witness: a built BVH of five nodes over moving objects, with an
\* internal node below the root whose bounds are smaller than the root's
C11_Witness ==
    /\ trav.pc = "built"
    /\ Len(bvh.nodes) = 5
    /\ Len(bounder(objects[1])) = 2
    /\ \E n \in 1..4 :
           /\ bvh.nodes[n + 1].kind = "Internal"
           /\ NodeBounds(bvh, n) # NodeBounds(bvh, 0)

\* has traverse been called with an empty batch of rays, or on an empty BVH
EmptyTraverse ==
    /\ trav.pc \in {"loop", "returned", "panicked"}
    /\ (bhist.rays = <<>> \/ Len(bvh.nodes) = 0)

\* C20 as stated: a traverse of an empty batch or of an empty BVH invokes
\* the test callback on nothing, leaves the rays as they were, and indexes
\* no node
C20_NoOpIndexesNothing ==
    EmptyTraverse =>
        /\ bhist.calls = 0
        /\ rays = bhist.rays
        /\ bhist.nodes = {}

\* C20, amended: a traverse of an empty batch or of an empty BVH never
\* invokes the test callback, leaves the rays as they were and does not
\* panic; on an empty BVH it returns at once, with no node indexed and its
\* stacks not even set up; on an empty batch with a BVH that has nodes it
\* indexes the root node, and no other, before it returns.
C20_NoOp ==
    EmptyTraverse =>
        /\ bhist.calls = 0 /\ bhist.tested = {}
        /\ rays = bhist.rays
        /\ isects = [id \in 1..Len(bhist.rays) |-> NoIsect]
        /\ trav.pc # "panicked"
        /\ Len(bvh.nodes) = 0 =>
               /\ trav.pc = "returned"
               /\ bhist.nodes = {}
               /\ trav.i_stack = <<>>
        /\ Len(bvh.nodes) > 0 =>
               /\ bhist.nodes \subseteq {0}
               /\ trav.pc = "returned" => bhist.nodes = {0}

\* C20 witness: traverse has returned from an empty batch on a BVH whose
\* root is a leaf of two objects
C20_Witness ==
    /\ trav.pc = "returned"
    /\ bhist.rays = <<>>
    /\ Len(bvh.nodes) = 1
    /\ Len(objects) = 2

\* the node indices of the subtree below node i, i included
RECURSIVE Subtree(_)
Subtree(i) ==
    IF bvh.nodes[i + 1].kind = "Internal"
    THEN {i} \cup Subtree(i + 1) \cup Subtree(bvh.nodes[i + 1].second_child_index)
    ELSE {i}

\* the visits of internal nodes that left a non-empty live prefix
Descents ==
    {k \in 1..Len(bhist.order) :
        bvh.nodes[bhist.order[k].node + 1].kind = "Internal" /\ bhist.order[k].part > 0}

\* the child examined first after visit k of an internal node, by the sign
\* of the first live ray on the split axis, and the child examined second
NearChild(k) ==
    LET i == bhist.order[k].node IN
    IF bhist.order[k].dir_inv[bvh.nodes[i + 1].split_axis + 1] >= 0
    THEN i + 1
    ELSE bvh.nodes[i + 1].second_child_index

FarChild(k) ==
    LET i == bhist.order[k].node IN
    IF NearChild(k) = i + 1 THEN bvh.nodes[i + 1].second_child_index ELSE i + 1

\* the visits of node i after visit k
VisitsAfter(k, i) == {j \in (k + 1)..Len(bhist.order) : bhist.order[j].node = i}

\* C23: after traverse has examined an internal node with a non-empty live
\* prefix, the next node examined is the left child (node i + 1) when the
\* first live ray's dir_inv on split_axis is sign-positive and the right
\* child (second_child_index) otherwise; every node examined from there up
\* to the other child belongs to the subtree of that first child, and no
\* node of that subtree is examined after the other child; both children
\* are examined with the live-ray count the parent's partition left, each of
\* them at most once, and exactly once when traverse has returned.
C23_NearChildFirst ==
    \A k \in Descents :
        /\ k < Len(bhist.order) => bhist.order[k + 1].node = NearChild(k)
        /\ Cardinality(VisitsAfter(k, NearChild(k))) <= 1
        /\ Cardinality(VisitsAfter(k, FarChild(k))) <= 1
        /\ \A j \in VisitsAfter(k, NearChild(k)) \cup VisitsAfter(k, FarChild(k)) :
                bhist.order[j].count = bhist.order[k].part
        /\ \A j \in VisitsAfter(k, FarChild(k)) :
                /\ \A j2 \in (k + 1)..(j - 1) : bhist.order[j2].node \in Subtree(NearChild(k))
                /\ \A j2 \in j..Len(bhist.order) : bhist.order[j2].node \notin Subtree(NearChild(k))
        /\ VisitsAfter(k, FarChild(k)) = {} =>
                \A j \in (k + 1)..Len(bhist.order) : bhist.order[j].node \in Subtree(NearChild(k))
        /\ trav.pc = "returned" =>
                /\ Cardinality(VisitsAfter(k, NearChild(k))) = 1
                /\ Cardinality(VisitsAfter(k, FarChild(k))) = 1

\* C23 witness: traverse has returned; rays of negative direction went into
\* the right child of the root first, an internal node they entered too, and
\* came to the left child of the root after the whole right subtree
C23_Witness ==
    /\ trav.pc = "returned"
    /\ \E k \in Descents :
        /\ bhist.order[k].node = 0
        /\ NearChild(k) = bvh.nodes[1].second_child_index
        /\ k + 1 \in Descents
        /\ \E j \in VisitsAfter(k, 1) : j >= k + 4
    /\ Len(bhist.order) >= 5

\* the ids of the rays at the first n places of a slice
IdsUpTo(rs, n) == {rs[i].id : i \in 1..n}

\* the count of the entry that traverse is about to examine
TopCount == trav.ray_i_stack[trav.stack_ptr + 1]

\* the counts on the stack never grow from an entry to the one above it, each
\* visit leaves a prefix no longer than its count, and rays is a permutation
\* of the batch
CountsNest ==
    /\ trav.pc = "loop" =>
        /\ TopCount <= Len(rays)
        /\ \A a \in 1..trav.stack_ptr : \A b \in a..trav.stack_ptr :
                trav.ray_i_stack[b + 1] <= trav.ray_i_stack[a + 1]
    /\ trav.pc \in {"loop", "returned"} =>
        /\ \A k \in 1..Len(bhist.order) : bhist.order[k].part <= bhist.order[k].count
        /\ Len(rays) = Len(bhist.rays)
        /\ IdsUpTo(rays, Len(rays)) = IdsUpTo(bhist.rays, Len(bhist.rays))

\* one iteration of the loop leaves every ray from place count on where and
\* as it was, and tests and changes the intersections only of rays of the
\* first count places
PrefixOnly ==
    trav.pc = "loop" =>
        /\ Len(rays') = Len(rays)
        /\ \A i \in (TopCount + 1)..Len(rays) : rays'[i] = rays[i]
        /\ IdsUpTo(rays', TopCount) = IdsUpTo(rays, TopCount)
        /\ \A t \in bhist'.tested \ bhist.tested : t[2] \in IdsUpTo(rays, TopCount)
        /\ \A id \in 1..Len(isects) :
                isects'[id] # isects[id] => id \in IdsUpTo(rays, TopCount)

\* C24: while traverse examines a node whose stack entry carries the count
\* c, only the rays at the places [0, c) are reordered, modified or given to
\* the test callback; the entries of the stack carry counts that never grow
\* from an entry to the entries above it, so the rays from place c on stay
\* untouched until the stack is back at an entry with a larger count; over
\* the whole call rays is a permutation of the batch.
C24_PrefixOnly == []CountsNest /\ [][PrefixOnly]_vars

\* C24 witness: traverse has returned from a tree of several levels; at the
\* root one of two rays was left out of the prefix, and at a node below a
\* leaf's objects were tested on the one ray left
C24_Witness ==
    /\ trav.pc = "returned"
    /\ Len(rays) = 2
    /\ Len(bhist.order) >= 3
    /\ bhist.order[1].count = 2 /\ bhist.order[1].part = 1
    /\ \E k \in 2..Len(bhist.order) :
        /\ bvh.nodes[bhist.order[k].node + 1].kind = "Leaf"
        /\ bhist.order[k].count = 1 /\ bhist.order[k].part = 1
    /\ \E t \in bhist.tested : t[2] = rays[1].id
    /\ \A t \in bhist.tested : t[2] # rays[2].id

\* the depth of node i, found from node cur at depth d: the left subtree of a
\* node holds the indices below second_child_index
RECURSIVE DepthFrom(_, _, _)
DepthFrom(cur, d, i) ==
    IF cur = i \/ bvh.nodes[cur + 1].kind = "Leaf" THEN d
    ELSE IF i < bvh.nodes[cur + 1].second_child_index
         THEN DepthFrom(cur + 1, d + 1, i)
         ELSE DepthFrom(bvh.nodes[cur + 1].second_child_index, d + 1, i)

\* the node examined last was examined at a stack position of at most its
\* depth plus one
PositionWithinDepth ==
    bhist.order # <<>> =>
        bhist.order[Len(bhist.order)].sp
            <= DepthFrom(0, 0, bhist.order[Len(bhist.order)].node) + 1

\* a traverse of a BVH of depth at most BVH_MAX_DEPTH is in progress or over
TraversingWithinDepth ==
    /\ trav.pc \in {"loop", "returned", "panicked"}
    /\ bvh.depth <= BVH_MAX_DEPTH

\* in a BVH of depth at most BVH_MAX_DEPTH the stack pointer stays within
\* [0, BVH_MAX_DEPTH + 1], so that no entry of i_stack or ray_i_stack is read
\* or written past the end
StackWithinBounds ==
    TraversingWithinDepth =>
        /\ trav.pc # "panicked"
        /\ trav.stack_ptr \in 0..(BVH_MAX_DEPTH + 1)
        /\ trav.pc = "loop" => trav.stack_ptr >= 1 /\ trav.stack_ptr + 1 <= StackSize
        /\ Len(bvh.nodes) > 0 => PositionWithinDepth
        /\ trav.pc = "returned" => trav.stack_ptr = 0

\* C25: during traverse of a BVH of depth at most BVH_MAX_DEPTH the stack
\* pointer stays within [0, BVH_MAX_DEPTH + 1] and no entry of i_stack or
\* ray_i_stack (BVH_MAX_DEPTH + 2 entries) is read or written out of bounds;
\* a node at depth d is examined at a stack position of at most d + 1; and
\* the loop ends, with the stack pointer at 0.
C25_StackBounded ==
    /\ []StackWithinBounds
    /\ (trav.pc = "loop" /\ bvh.depth <= BVH_MAX_DEPTH) ~> (trav.pc = "returned")

\* C25 witness: traverse has returned from a BVH of depth BVH_MAX_DEPTH in
\* which a ray went down to a deepest leaf, examined at stack position
\* BVH_MAX_DEPTH + 1
C25_Witness ==
    /\ trav.pc = "returned"
    /\ bvh.depth = BVH_MAX_DEPTH
    /\ \E k \in 1..Len(bhist.order) : bhist.order[k].sp = BVH_MAX_DEPTH + 1

\* the calls of recursive_build in progress that have made an internal node
SplitCalls == {k \in 1..Len(build.stack) : build.stack[k].pc \in {"first", "second"}}

RECURSIVE SubtreeEnd(_)
SubtreeEnd(i) ==
    IF bvh.nodes[i + 1].kind = "Internal"
    THEN SubtreeEnd(bvh.nodes[i + 1].second_child_index)
    ELSE i + 1

\* the indices of the leaves
LeafNodes == {i \in 0..(Len(bvh.nodes) - 1) : bvh.nodes[i + 1].kind = "Leaf"}

\* where the object range of leaf i has to start: at the end of the range of
\* the leaf before it in node order, or at 0
RangeStart(i) ==
    IF \E j \in LeafNodes : j < i
    THEN bvh.nodes[(CHOOSE j \in LeafNodes :
                        j < i /\ \A j2 \in LeafNodes : j2 < i => j2 <= j) + 1].object_range[2]
    ELSE 0

\* from_objects has returned a BVH built from a slice that is not empty
BuiltNonEmpty == trav.pc = "built" /\ Len(objects) > 0

\* C27: in a BVH built from a non-empty slice the root is node 0; for every
\* internal node i the left child is node i + 1 and the right child is
\* second_child_index, with i + 1 < second_child_index < number of nodes,
\* and the subtree of the left child is exactly the nodes
\* [i + 1, second_child_index); the tree holds all the nodes; the object
\* ranges of the leaves, in node order, each hold between 1 and
\* objects_per_leaf objects, each start where the one before ends, the
\* first at 0, and the last ends at N.
C27_PreOrderLayout ==
    BuiltNonEmpty =>
        /\ Len(bvh.nodes) >= 1
        /\ build.ret.index = 0
        /\ SubtreeEnd(0) = Len(bvh.nodes)
        /\ \A i \in 0..(Len(bvh.nodes) - 1) :
            bvh.nodes[i + 1].kind = "Internal" =>
                /\ i + 1 < bvh.nodes[i + 1].second_child_index
                /\ bvh.nodes[i + 1].second_child_index < Len(bvh.nodes)
                /\ SubtreeEnd(i + 1) = bvh.nodes[i + 1].second_child_index
        /\ \A i \in LeafNodes :
            /\ bvh.nodes[i + 1].object_range[1] = RangeStart(i)
            /\ bvh.nodes[i + 1].object_range[2] - bvh.nodes[i + 1].object_range[1] >= 1
            /\ bvh.nodes[i + 1].object_range[2] - bvh.nodes[i + 1].object_range[1]
                    <= objects_per_leaf
        /\ \E i \in LeafNodes :
            /\ \A j \in LeafNodes : j <= i
            /\ bvh.nodes[i + 1].object_range[2] = Len(objects)

\* C27 witness: a BVH of five nodes built from three objects, whose root has
\* an internal left child (nodes 1 to 3) and its right child at node 4
C27_Witness ==
    /\ BuiltNonEmpty
    /\ Len(objects) = 3
    /\ Len(bvh.nodes) = 5
    /\ bvh.nodes[1].second_child_index = 4
    /\ bvh.nodes[2].kind = "Internal"

(* Claims about the tracer *)

\* the sign class of a ray on the three axes
SignClass(r) == [a \in 1..3 |-> r.dir_inv[a] >= 0]

\* C16: split_rays_by_direction returns eight contiguous slices, one after
\* the other from the first ray to the last, that hold the input rays, each
\* once; the rays of one slice have the same sign class of dir_inv on x, on
\* y and on z, and rays of different slices differ in the sign class of at
\* least one axis.
C16_SplitByOctant ==
    tr.pc = "split_done" =>
        /\ Len(tr.s) = 9
        /\ tr.s[1] = 0 /\ tr.s[9] = Len(tr.rays)
        /\ \A k \in 1..8 : tr.s[k] <= tr.s[k + 1]
        /\ Len(tr.rays) = Len(tr.hist)
        /\ \A i \in 1..Len(tr.hist) :
               Cardinality({j \in 1..Len(tr.rays) : tr.rays[j] = tr.hist[i]}) = 1
        /\ \A k, l \in 0..7 :
               \A i \in (RaySet(tr.s, k)[1] + 1)..RaySet(tr.s, k)[2] :
                   \A j \in (RaySet(tr.s, l)[1] + 1)..RaySet(tr.s, l)[2] :
                       (k = l) <=> (SignClass(tr.rays[i]) = SignClass(tr.rays[j]))

\* C16 witness: three rays that differ only on z, on y and on x were split
\* into three slices, and their order has changed
C16_Witness ==
    /\ tr.pc = "split_done"
    /\ Len(tr.rays) = 3
    /\ tr.rays # tr.hist
    /\ Cardinality({k \in 0..7 : RaySet(tr.s, k)[1] < RaySet(tr.s, k)[2]}) = 3
    /\ \E i, j \in 1..3 : tr.rays[i].dir_inv[3] # tr.rays[j].dir_inv[3]

\* the transforms on the way from the root assembly to the surfaces under
\* the root instance inst, outermost first
OwnXforms(inst, xforms) ==
    IF inst.transform_indices = None THEN <<>>
    ELSE <<xforms[inst.transform_indices[1] + 1]>>
SurfacePaths(inst) ==
    IF inst.instance_type = "Object" THEN {OwnXforms(inst, RootXforms)}
    ELSE {OwnXforms(inst, RootXforms)
              \o OwnXforms(RootAssemblies[inst.data_index + 1].instances[k],
                           RootAssemblies[inst.data_index + 1].xforms) :
            k \in 1..Len(RootAssemblies[inst.data_index + 1].instances)}

\* a point and a direction taken through the transforms ms, one by one
RECURSIVE PointThrough(_, _)
PointThrough(ms, p) ==
    IF ms = <<>> THEN p ELSE PointThrough(Tail(ms), XformPoint(Head(ms), p))
RECURSIVE VectorThrough(_, _)
VectorThrough(ms, v) ==
    IF ms = <<>> THEN v ELSE VectorThrough(Tail(ms), XformVector(Head(ms), v))

\* does the world ray hit the surface at the end of the transforms ms,
\* closer than its max_t
HitsSurface(wr, ms) ==
    HitDistance([bounds |-> Surface.shape],
                [orig |-> PointThrough(ms, wr.orig),
                 dir_inv |-> VectorThrough(ms, wr.dir),
                 time |-> wr.time]) < wr.max_t

\* does the world ray hit a surface of the scene
HitsAny(wr) ==
    \E k \in 1..Len(objects) : \E ms \in SurfacePaths(objects[k]) : HitsSurface(wr, ms)

\* the accel ray of the world ray id, as trace has left it
TracedRay(id) == tr.rays[CHOOSE i \in 1..Len(tr.rays) : tr.rays[i].id = id]

IsXformed(i) ==
    tr.stack[i].kind = "callback" /\ tr.stack[i].inst.transform_indices # None
XformedUpTo(i) == Cardinality({j \in 1..i : IsXformed(j)})

\* the transforms of the instances of the first i frames, outermost first
RECURSIVE PathXforms(_)
PathXforms(i) ==
    IF i = 0 THEN <<>>
    ELSE PathXforms(i - 1)
             \o (IF IsXformed(i)
                 THEN OwnXforms(tr.stack[i].inst, AssemblyAt(tr.stack[i].asm).xforms)
                 ELSE <<>>)

\* the depth of the transform stack before event i of the history
DepthBefore(i) == IF i = 1 THEN 0 ELSE tr.hist[i - 1].depth

\* C15: during trace the depth of the transform stack is the number of
\* instances with transform_indices among the callbacks in progress, and
\* its top combines their transforms, outermost first; entering an instance
\* with transform_indices raises the depth by one and leaving it lowers it
\* by one, to the depth at which the instance was entered; entering and
\* leaving an instance without leaves the depth as it is; the stack is
\* empty when no call of trace_assembly is in progress and when trace has
\* returned.
C15_XformStackLIFO ==
    tr.pc \in {"sets", "returned"} =>
        /\ Len(tr.xform_stack) = XformedUpTo(Len(tr.stack))
        /\ \A i \in 1..Len(tr.stack) :
               tr.stack[i].kind = "callback" => tr.stack[i].depth = XformedUpTo(i - 1)
        /\ tr.xform_stack # <<>> =>
               \A p \in {<<0, 0, 0>>, <<2, 4, 6>>} :
                   XformPoint(tr.xform_stack[Len(tr.xform_stack)][1], p)
                       = PointThrough(PathXforms(Len(tr.stack)), p)
        /\ \A i \in 1..Len(tr.hist) :
               /\ tr.hist[i].ev = "push" =>
                      /\ tr.hist[i].before = DepthBefore(i)
                      /\ tr.hist[i].depth = DepthBefore(i) + 1
               /\ tr.hist[i].ev = "pop" =>
                      /\ tr.hist[i].depth = DepthBefore(i) - 1
                      /\ tr.hist[i].depth = tr.hist[i].before
               /\ tr.hist[i].ev \in {"enter", "leave"} =>
                      /\ tr.hist[i].depth = DepthBefore(i)
                      /\ tr.hist[i].depth = tr.hist[i].before
        /\ Len(tr.xform_stack) = DepthBefore(Len(tr.hist) + 1)
        /\ (tr.stack = <<>> \/ tr.pc = "returned") =>
               /\ tr.xform_stack = <<>>
               /\ Cardinality({i \in 1..Len(tr.hist) : tr.hist[i].ev = "push"})
                      = Cardinality({i \in 1..Len(tr.hist) : tr.hist[i].ev = "pop"})

\* C15 witness: trace has returned after it went through an instance two
\* transforms deep and through an instance without transform_indices
C15_Witness ==
    /\ tr.pc = "returned"
    /\ tr.xform_stack = <<>>
    /\ \E i, j, k \in 1..Len(tr.hist) :
           /\ i < j
           /\ tr.hist[i].ev = "push" /\ tr.hist[i].depth = 2
           /\ tr.hist[j].ev = "pop" /\ tr.hist[j].depth = 0
           /\ tr.hist[k].ev = "enter"

\* the Hilbert index at which the producer pushes a job
HilbertD(job) ==
    CHOOSE d \in 0..(bucket_n(cfg) - 1) :
        TileIsJob(cfg, Tile(cfg, d)) /\ BucketJob(cfg, Tile(cfg, d)) = job

\* the pops so far are the first pushes, in the same order, and no job has
\* been pushed twice
PopsFollowPushes ==
    /\ \A i, j \in 1..Len(rhist.pushed) :
           i < j => rhist.pushed[i] # rhist.pushed[j]
    /\ Len(rhist.popped) <= Len(rhist.pushed)
    /\ rhist.popped = SubSeq(rhist.pushed, 1, Len(rhist.popped))

\* a step that moves the producer's Hilbert index moves it from d to d + 1
\* and pushes the job of cell d when the cell lies in the render region, and
\* nothing otherwise; no other step pushes
PushesFollowCurve ==
    IF prod'.hilbert_d # prod.hilbert_d
    THEN /\ prod'.hilbert_d = prod.hilbert_d + 1
         /\ rhist'.pushed =
                IF TileIsJob(cfg, Tile(cfg, prod.hilbert_d))
                THEN Append(rhist.pushed, BucketJob(cfg, Tile(cfg, prod.hilbert_d)))
                ELSE rhist.pushed
    ELSE rhist'.pushed = rhist.pushed

\* C17: the producer goes through the cells of the Hilbert curve by strictly
\* increasing index d and pushes the job of every cell that lies in the
\* render region, skipping the others, each job once; and the successful
\* pops of all the workers, in the order they happen, are the first pushes
\* in the same order: no job is popped before one of smaller Hilbert index.
C17_HilbertOrder == []PopsFollowPushes /\ [][PushesFollowCurve]_vars

\* C17 witness: two workers have each popped and rendered a job, and the
\* producer had skipped cells of the curve between the two jobs
C17_Witness ==
    /\ Len(rhist.popped) >= 2
    /\ cfg.thread_count >= 2
    /\ \A w \in DOMAIN workers : workers[w].stats >= 1
    /\ HilbertD(rhist.popped[2]) > HilbertD(rhist.popped[1]) + 1

(* Claims about render_job path by path *)

\* the number of places of a sequence that hold e
Count(s, e) == Cardinality({k \in 1..Len(s) : s[k] = e})

\* the pixel and the sample index of a path
PathKey(p) == [pixel_co |-> p.pixel_co, si |-> p.si]

\* the paths LightPath::new is called for in a bucket
BucketKeys(b, spp) ==
    {[pixel_co |-> px, si |-> si] : px \in JobPixels(b), si \in 0..(spp - 1)}

\* C13: while a bucket is traced, paths and rays hold exactly the paths
\* created for this bucket, one per (pixel, sample index), whatever
\* partition_pair has moved and whichever paths have ended; when the bucket
\* has been written to the image, every such path has contributed exactly
\* once, to its own pixel, which is a pixel of the bucket's lease, and every
\* pixel of the bucket has received exactly spp contributions.
C13_EachPathOnce ==
    \A w \in DOMAIN rj :
        LET j == rj[w]
            keys == BucketKeys(j.bucket, cfg.spp)
        IN  /\ workers[w].pc = "trace" =>
                /\ Len(j.paths) = Cardinality(keys)
                /\ Len(j.rays) = Len(j.paths)
                /\ \A key \in keys :
                       Count([k \in 1..Len(j.paths) |-> PathKey(j.paths[k])], key) = 1
            /\ j.contrib # <<>> =>
                /\ Len(j.contrib) = Cardinality(keys)
                /\ \A key \in keys : Count(j.contrib, key) = 1
                /\ \A k \in 1..Len(j.contrib) :
                       j.contrib[k].pixel_co \in JobPixels(j.bucket)
                /\ \A px \in JobPixels(j.bucket) :
                       image[px] = j.before[px] + cfg.spp

\* C13 witness: the second bucket of a worker has been written; its two
\* paths ended after different numbers of calls of next and partition_pair
\* has exchanged them
C13_Witness ==
    \E w \in DOMAIN rj :
        /\ rj[w].contrib # <<>>
        /\ Cardinality(rhist.rendered) >= 2
        /\ Len(rj[w].paths) >= 2
        /\ rj[w].paths[1].round # rj[w].paths[2].round
        /\ PathKey(rj[w].paths[1]) # PathKey(NewPaths(rj[w].bucket, cfg.spp)[1])

(* Claims about render and render_job lock by lock *)

\* every worker has left render_job and render has returned
AllReturned ==
    /\ prod.pc = "returned"
    /\ \A w \in DOMAIN workers : workers[w].pc = "done"

\* C14: under fair scheduling, from the moment all_jobs_queued is true every
\* worker eventually leaves its render loop, collects its stats and returns,
\* and render returns: no worker stays blocked on the queue, on a bucket
\* lease, on the mutex of pixels_rendered or on the lock of the stats.
C14_WorkersExit == all_jobs_queued ~> AllReturned

\* C14 witness: render has returned after two workers rendered several
\* buckets, one of them having waited for the mutex of pixels_rendered
C14_Witness ==
    /\ AllReturned
    /\ cfg.thread_count >= 2
    /\ Cardinality(rhist.rendered) >= 2
    /\ \A w \in DOMAIN workers : workers[w].stats >= 1

\* the sum of the local stats of the workers of ws
RECURSIVE SumStats(_)
SumStats(ws) ==
    IF ws = {} THEN 0
    ELSE LET w == CHOOSE v \in ws : TRUE
         IN  SumStats(ws \ {w}) + workers[w].stats

\* the workers that have returned from render_job
Done == {w \in DOMAIN workers : workers[w].pc = "done"}

\* C18: the shared stats are at every moment the sum of the local stats of
\* the workers that have returned, so that each worker has added its stats
\* once, at its return and not before; a worker that adds them has left its
\* render loop and holds the write lock of the shared stats; and when render
\* has returned every worker has returned and the stats render returns are
\* the sum of the local stats of all thread_count workers.
C18_StatsAreSum ==
    /\ shared.collective_stats = SumStats(Done)
    /\ \A w \in DOMAIN workers :
           workers[w].pc = "collecting" =>
               /\ locks.collective_stats = w
               /\ workers[w].bucket = NoBucket
    /\ prod.pc = "returned" =>
           /\ Done = 1..cfg.thread_count
           /\ prod.stats = SumStats(1..cfg.thread_count)

\* C18 witness: a worker that rendered a bucket has added its stats and
\* returned while another one that rendered a bucket holds the write lock
C18_Witness ==
    \E v, w \in DOMAIN workers :
        /\ workers[v].pc = "done" /\ workers[v].stats >= 1
        /\ workers[w].pc = "collecting" /\ workers[w].stats >= 1
        /\ shared.collective_stats = workers[v].stats

(* Claims about the trace loop of a bucket *)

\* the ray a path holds after it has been created or has returned true: the
\* one it wrote at its latest call of next
OwnRay(p) == [pixel_co |-> p.pixel_co, si |-> p.si, round |-> p.round]

\* the place of the path of a key in paths
PlaceOf(paths, key) == CHOOSE k \in 1..Len(paths) : PathKey(paths[k]) = key

\* the first pi pairs are the paths that go on, each with the ray it wrote;
\* the paths behind them have returned false; the latest call of next on a
\* path was given the intersection of the ray the path held then
ActivePrefix(j) ==
    /\ j.pi <= Len(j.paths)
    /\ \A k \in 1..Len(j.paths) :
        /\ k <= j.pi => (j.paths[k].alive /\ j.rays[k] = OwnRay(j.paths[k]))
        /\ k > j.pi => ~j.paths[k].alive
        /\ j.paths[k].round > 0 =>
            j.paths[k].got = [OwnRay(j.paths[k]) EXCEPT !.round = j.paths[k].round - 1]

\* one iteration of the loop of worker w: next is called once on each of
\* the pi active paths and on no other path, and the active count does not
\* grow
OncePerActivePath(w) ==
    (workers[w].pc = "trace" /\ workers'[w].pc = "trace" /\ rj'[w] # rj[w]) =>
        /\ rj[w].pi > 0
        /\ rj'[w].pi <= rj[w].pi
        /\ Len(rj'[w].paths) = Len(rj[w].paths)
        /\ \A k \in 1..Len(rj[w].paths) :
            LET p == rj[w].paths[k]
                q == rj'[w].paths[PlaceOf(rj'[w].paths, PathKey(p))]
            IN  /\ (k <= rj[w].pi) => (p.alive /\ q.round = p.round + 1)
                /\ (k > rj[w].pi) => (~p.alive /\ q = p)
                /\ q.alive <=> PlaceOf(rj'[w].paths, PathKey(p)) <= rj'[w].pi

\* the loop is left only when no path is active
EndsAtZero(w) ==
    (workers[w].pc = "trace" /\ workers'[w].pc # "trace") => rj[w].pi = 0

\* C29: in every iteration of the trace loop of a bucket next is called
\* exactly once on each of the pi active paths, with the intersection of the
\* path's own current ray; afterwards the first pi' <= pi entries of paths
\* and rays are exactly the paths that returned true, each with the ray it
\* just wrote; a path that returned false is not passed to next again; the
\* active count never grows and the loop ends when it is zero.
C29_ActivePrefix ==
    /\ [](\A w \in DOMAIN rj : workers[w].pc = "trace" => ActivePrefix(rj[w]))
    /\ [][\A w \in DOMAIN rj : OncePerActivePath(w) /\ EndsAtZero(w)]_vars

\* C29 witness: after the second iteration of a bucket of two paths one
\* path, which partition_pair has moved to the front, is still active and
\* has been called twice, and the other returned false at the first
C29_Witness ==
    \E w \in DOMAIN rj :
        /\ workers[w].pc = "trace"
        /\ Len(rj[w].paths) = 2
        /\ rj[w].pi = 1
        /\ rj[w].paths[1].round = 2 /\ rj[w].paths[1].alive
        /\ rj[w].paths[2].round = 1 /\ ~rj[w].paths[2].alive
        /\ PathKey(rj[w].paths[1]) # PathKey(NewPaths(rj[w].bucket, cfg.spp)[1])

(* Claims about the scene parser *)

\* the words and numbers of a text, its whitespace left out
Lexemes(text) == SelectSeq(text, LAMBDA t : t # " ")

\* the leaf children of the node that have the given type
LeavesOf(tree, type_name) ==
    {i \in 1..Len(tree.children) : tree.children[i].leaf /\ tree.children[i].type_name = type_name}

\* the first leaf child of that type
FirstLeaf(tree, type_name) ==
    tree.children[CHOOSE i \in LeavesOf(tree, type_name) : \A j \in LeavesOf(tree, type_name) : i <= j]

\* the fields each Type requires and how many numbers each one holds
RequiredFields ==
    (<<"Emit">> :> {<<"Color", 3>>}) @@ (<<"Lambert">> :> {<<"Color", 3>>})
    @@ (<<"GTR">> :> {<<"Color", 3>>, <<"Roughness", 1>>, <<"TailShape", 1>>, <<"Fresnel", 1>>})

\* the text starts with n numbers
HoldsNumbers(text, n) ==
    /\ Len(Lexemes(text)) >= n
    /\ \A i \in 1..n : Lexemes(text)[i] \in {"1", "2", "3"}

TypeMissing(tree) == LeavesOf(tree, "Type") = {}

TypeOf(tree) == Lexemes(FirstLeaf(tree, "Type").contents)

TypeUnrecognised(tree) == ~TypeMissing(tree) /\ TypeOf(tree) \notin DOMAIN RequiredFields

FieldsMissing(tree) ==
    IF TypeMissing(tree) \/ TypeUnrecognised(tree) THEN {}
    ELSE {fd \in RequiredFields[TypeOf(tree)] : LeavesOf(tree, fd[1]) = {}}

FieldsUnparsable(tree) ==
    IF TypeMissing(tree) \/ TypeUnrecognised(tree) THEN {}
    ELSE {fd \in RequiredFields[TypeOf(tree)] :
            /\ LeavesOf(tree, fd[1]) # {}
            /\ ~HoldsNumbers(FirstLeaf(tree, fd[1]).contents, fd[2])}

Malformed(tree) ==
    \/ TypeMissing(tree)
    \/ TypeUnrecognised(tree)
    \/ FieldsMissing(tree) # {}
    \/ FieldsUnparsable(tree) # {}

\* the error the claim prescribes for the node: MissingNode with the node's
\* offset for an absent field, UnknownError with the leaf's offset for
\* contents that are not numbers
PrescribedErr(tree, result) ==
    /\ result.tag = "Err"
    /\ \/ /\ result.val.err = "MissingNode"
          /\ result.val.byte_offset = tree.byte_offset
          /\ TypeMissing(tree) \/ FieldsMissing(tree) # {}
       \/ /\ result.val.err = "UnknownError"
          /\ \E fd \in FieldsUnparsable(tree) :
                result.val.byte_offset = FirstLeaf(tree, fd[1]).byte_offset
       \/ /\ TypeUnrecognised(tree)
          /\ result.val.byte_offset \in
                {tree.byte_offset} \cup {tree.children[i].byte_offset : i \in 1..Len(tree.children)}

\* C21: when parse_surface_shader has returned from a malformed
\* SurfaceShader node (Type missing or unrecognised, a required field missing
\* or not numbers) the result is an Err that carries a byte offset,
\* MissingNode with the node's offset for an absent field and UnknownError
\* with the leaf's offset for unparsable contents; the call does not panic
\* and returns no shader.
C21_MalformedIsErr ==
    (shader # <<>> /\ shader.called /\ Malformed(shader.tree))
        => PrescribedErr(shader.tree, shader.result)

(* Claims about Float4 *)

\* the accessors of one lane, by lane
LaneSet(k, data, v) ==
    CASE k = 0 -> set_0(data, v) [] k = 1 -> set_1(data, v)
      [] k = 2 -> set_2(data, v) [] k = 3 -> set_3(data, v)

LaneGet(k, data) ==
    CASE k = 0 -> get_0(data) [] k = 1 -> get_1(data)
      [] k = 2 -> get_2(data) [] k = 3 -> get_3(data)

\* C22: after set_n(n, v) with n in 0..3, get_n(n) returns v and the other
\* three lanes hold what they held before the call; set_n(n, v) leaves the
\* Float4 that set_0..set_3 of that lane leaves, and get_n(n) returns what
\* get_0..get_3 of that lane returns, changing nothing; with n >= 4 both
\* calls panic and no lane is read or written.
C22_LanesByIndex ==
    f4 # <<>> =>
        /\ (f4.last.op = "set_n" /\ f4.last.n \in 0..3) =>
            /\ ~f4.last.panic
            /\ get_n(f4.data, f4.last.n) = [ret |-> f4.last.v, panic |-> FALSE]
            /\ \A k \in 0..3 : k # f4.last.n => f4.data[k] = f4.before[k]
            /\ f4.data = LaneSet(f4.last.n, f4.before, f4.last.v)
        /\ (f4.last.op = "get_n" /\ f4.last.n \in 0..3) =>
            /\ ~f4.last.panic
            /\ f4.last.ret = LaneGet(f4.last.n, f4.before)
            /\ f4.last.ret = f4.before[f4.last.n]
            /\ f4.data = f4.before
        /\ (f4.last.op \in {"set_n", "get_n"} /\ f4.last.n >= 4) =>
            /\ f4.last.panic
            /\ f4.data = f4.before

\* C22 witness: set_n(2, v) has written a new value into lane 2 of a Float4
\* whose lanes 2 and 3 differed, and v is not what lane 3 holds
C22_Witness ==
    /\ f4 # <<>>
    /\ f4.last.op = "set_n" /\ f4.last.n = 2 /\ ~f4.last.panic
    /\ f4.before[2] # f4.last.v
    /\ f4.before[3] # f4.last.v
    /\ f4.before[2] # f4.before[3]

(* Claims about the --use_stdin loop *)

\* the bytes of the stream read so far
ReadSoFar == SubSeq(main.stream, 1, main.pos)

\* without a read of 0 bytes the loop ends
EndsBeforeEndOfInput == <>(main.pc # "loop" \/ main.zero_reads > 0)

\* the loop has stopped exactly when what has been read holds the token, and
\* then psy_contents is what the stream holds before its first token
StopsAtFirstToken ==
    /\ (main.pc = "done") <=> (FindSubstring(ReadSoFar, Token) # -1)
    /\ main.pc = "done" =>
        /\ main.input = SubSeq(main.stream, 1, FindSubstring(main.stream, Token))
        /\ FindSubstring(ReadSoFar, Token) = FindSubstring(main.stream, Token)
    /\ main.pc = "loop" => main.input = ReadSoFar

\* a read of 0 bytes ends the loop with a failure
FailsAtEndOfInput == main.zero_reads > 0 => main.pc = "panicked"

\* C30: the loop ends for every stream and every way the stream is cut into
\* reads: at the first read after which the input holds __PSY_EOF__, with
\* exactly the bytes before the token kept, and with the failure
\* "Unexpected end of scene input" when a read gives 0 bytes and the token
\* has not come.
C30_StdinLoopEnds ==
    /\ []StopsAtFirstToken
    /\ []FailsAtEndOfInput
    /\ <>(main.pc # "loop")

Spec == SpecPath
====
